---- MODULE Spec2Model ----
(***************************************************************************)
(* bbmon: the snapshot differ (BBMonitor.compare_baselines, monitor.py)    *)
(* and the severity escalation of a change set (Notifier.notify_changes,   *)
(* modules/notifier.py).                                                   *)
(*                                                                         *)
(* Python dicts are functions, Python lists are sequences.  A Python       *)
(* list(some_set) is the sequence of the set's elements in one fixed       *)
(* enumeration order (the code leaves the order to the set's iteration).   *)
(***************************************************************************)
EXTENDS Integers, Sequences, FiniteSets, TLC

VARIABLES old, new, changes, priority, pc,
          url, classification,
          result, response,
          dnsx_output, dns_results, verified_takeovers, takeover_index,
          protocol_index, requested, takeovers,
          baseline_files, diff_files, all_changes, target_index, report,
          config, sent,
          futures, results

\* The differ and the notifier.
monitorVars == <<old, new, changes, priority>>

\* WaybackAnalyzer.classify_url.
classifyVars == <<url, classification>>

\* HTTPMonitor.probe_url and flag_target; the URL is `url`.
probeVars == <<result, response>>

\* SubdomainFinder.run_all: the DNS check and the takeover verification;
\* the URL requested last is `url` and what came of it is `response`.
takeoverVars ==
    <<dnsx_output, dns_results, verified_takeovers, takeover_index,
      protocol_index, requested, takeovers>>

\* BBMonitor.run_monitoring: the baseline and the diff directory, the
\* changes of the run, the position in the targets, the report.
runVars == <<baseline_files, diff_files, all_changes, target_index, report>>

\* Notifier: its configuration and the messages it has sent.
notifyVars == <<config, sent>>

\* HTTPMonitor.probe_multiple: the futures of the pool and the results.
multiVars == <<futures, results>>

vars ==
    <<monitorVars, pc, classifyVars, probeVars, takeoverVars, runVars,
      notifyVars, multiVars>>

\* The value of a variable that the run at hand does not use.
Unused == "unused"

ClassifyUnused == url = Unused /\ classification = Unused

ProbeUnused == result = Unused /\ response = Unused

RunUnused ==
    /\ baseline_files = Unused
    /\ diff_files = Unused
    /\ all_changes = Unused
    /\ target_index = Unused
    /\ report = Unused

NotifyUnused == config = Unused /\ sent = Unused

MultiUnused == futures = Unused /\ results = Unused

TakeoverUnused ==
    /\ dnsx_output = Unused
    /\ dns_results = Unused
    /\ verified_takeovers = Unused
    /\ takeover_index = Unused
    /\ protocol_index = Unused
    /\ requested = Unused
    /\ takeovers = Unused

(***************************************************************************)
(* Bounds of the model.                                                    *)
(***************************************************************************)
NumHosts == 2
MaxTakeovers == 2
MaxFlags == 2
MaxBodyLen == 22
MaxChanged == 2
MaxParams == 2
MaxRedirects == 1
MaxCnames == 2
MaxDnsLines == 2

(***************************************************************************)
(* Helpers.                                                                *)
(***************************************************************************)
Range(s) == {s[i] : i \in DOMAIN s}

EmptyDict == [k \in {} |-> TRUE]

RECURSIVE ListOf(_, _)
\* list(S): the elements of the set S, in the enumeration order `order`.
ListOf(order, S) ==
    IF order = <<>> THEN <<>>
    ELSE IF Head(order) \in S
         THEN <<Head(order)>> \o ListOf(Tail(order), S)
         ELSE ListOf(Tail(order), S)

Abs(x) == IF x < 0 THEN -x ELSE x

(***************************************************************************)
(* The values the baselines of the model are built from.                   *)
(***************************************************************************)
HostNames ==
    <<"admin.example.com", "new-api.example.com", "old-app.example.com">>

HostSeq == SubSeq(HostNames, 1, NumHosts)
Hosts == Range(HostSeq)

\* probe_http: every subdomain is probed as https://<subdomain>.
Url(h) == "https://" \o h

UrlSeq == [i \in DOMAIN HostSeq |-> Url(HostSeq[i])]
Urls == Range(UrlSeq)

StatusCodes == {200, 403}
Titles == {"Forbidden", "Admin Panel"}
TechSeq == <<"Apache", "PHP">>
Technologies == Range(TechSeq)

\* Flags as flag_target writes them: type, message, severity.
FlagAdmin ==
    [type |-> "high_value", severity |-> "high",
     message |-> "High-value target: admin (admin in URL)"]
FlagStatus ==
    [type |-> "status", severity |-> "medium",
     message |-> "Interesting status: 403 - Forbidden"]
FlagOutdated ==
    [type |-> "outdated_tech", severity |-> "high",
     message |-> "Outdated/vulnerable technology: Apache 2.4.49"]
FlagPool == <<FlagAdmin, FlagStatus, FlagOutdated>>

\* The flag lists: the sub-lists of FlagPool of at most MaxFlags flags.
FlagLists ==
    {ListOf(FlagPool, S) : S \in {T \in SUBSET Range(FlagPool) : Cardinality(T) <= MaxFlags}}

BaseRecord ==
    [status_code |-> 200, title |-> "Admin Panel", body_length |-> 20,
     technologies |-> {"Apache"}, flags |-> <<FlagAdmin>>]

\* Endpoint records that differ in status code, title and flags.
RecordsByStatus ==
    {[BaseRecord EXCEPT !.status_code = s, !.title = t, !.flags = f] :
        s \in StatusCodes, t \in Titles, f \in FlagLists}

\* Endpoint records that differ in body length.
RecordsByLength ==
    {[BaseRecord EXCEPT !.body_length = n, !.flags = <<>>] : n \in 0..MaxBodyLen}

\* Endpoint records that differ in the detected technologies.
RecordsByTech ==
    {[BaseRecord EXCEPT !.technologies = T, !.flags = <<>>] : T \in SUBSET Technologies}

\* Takeover candidates: check_takeover_signature's record, and the record
\* after verify_takeover has promoted it.
CandidateMedium(h) ==
    [subdomain |-> h, cname |-> "old-app.herokuapp.com", service |-> "heroku",
     confidence |-> "medium"]
CandidateHigh(h) ==
    [subdomain |-> h, cname |-> "pages.github.io", service |-> "github",
     confidence |-> "high", url |-> Url(h), status_code |-> 404,
     fingerprint |-> "There isn't a GitHub Pages site here"]
Candidates == {CandidateMedium(h) : h \in Hosts} \cup {CandidateHigh(h) : h \in Hosts}

\* Takeover lists: check_dns_with_dnsx appends at most one candidate per
\* resolved host, so the subdomains of a list are distinct.
TakeoverLists ==
    {l \in UNION {[1..k -> Candidates] : k \in 0..MaxTakeovers} :
        \A i, j \in DOMAIN l : l[i].subdomain = l[j].subdomain => i = j}

JsSeq == <<"https://admin.example.com/app.js">>
JsEndpointSeq == <<"/api/users", "/api/admin">>
JsRecords ==
    [hash : {"h1", "h2"}, endpoints : SUBSET Range(JsEndpointSeq)]
JsDicts == UNION {[D -> JsRecords] : D \in SUBSET Range(JsSeq)}

\* collect_baseline's dictionary (domain and timestamp left out: the differ
\* reads neither).
MkBaseline(subs, tks, eps, js) ==
    [subdomains |-> [s \in subs |-> TRUE],
     subdomain_takeovers |-> tks,
     endpoints |-> eps,
     javascript_files |-> js]

EmptyBaseline == MkBaseline({}, <<>>, EmptyDict, EmptyDict)

(***************************************************************************)
(* BBMonitor.compare_baselines, section by section.                        *)
(***************************************************************************)

\* Mutant: the old keys are not subtracted.
new_subdomains_unsubtracted(o, n) ==
    ListOf(HostNames, DOMAIN n.subdomains)

\* Subdomains: the keys of the two subdomain dicts, subtracted both ways.
new_subdomains(o, n) ==
    ListOf(HostNames, DOMAIN n.subdomains \ DOMAIN o.subdomains)

removed_subdomains(o, n) ==
    ListOf(HostNames, DOMAIN o.subdomains \ DOMAIN n.subdomains)

\* {t['subdomain']: t for t in takeovers}: a later entry of the list
\* replaces an earlier one with the same subdomain.
TakeoverDict(l) ==
    [s \in {l[i].subdomain : i \in DOMAIN l} |->
        l[CHOOSE i \in DOMAIN l :
            /\ l[i].subdomain = s
            /\ \A j \in DOMAIN l : l[j].subdomain = s => j <= i]]

RECURSIVE TakeoversOf(_, _)
\* [d[sub] for sub in keys]
TakeoversOf(keys, d) ==
    IF keys = <<>> THEN <<>>
    ELSE <<d[Head(keys)]>> \o TakeoversOf(Tail(keys), d)

\* Mutant: candidates are compared as whole records, not by subdomain.
new_takeovers_by_record(o, n) ==
    LET new_tk == TakeoverDict(n.subdomain_takeovers)
    IN  TakeoversOf(
            ListOf(HostNames,
                   {s \in DOMAIN new_tk : new_tk[s] \notin Range(o.subdomain_takeovers)}),
            new_tk)

new_takeovers(o, n) ==
    LET old_takeovers == TakeoverDict(o.subdomain_takeovers)
        new_tk == TakeoverDict(n.subdomain_takeovers)
    IN  TakeoversOf(ListOf(HostNames, DOMAIN new_tk \ DOMAIN old_takeovers), new_tk)

resolved_takeovers(o, n) ==
    LET old_takeovers == TakeoverDict(o.subdomain_takeovers)
        new_tk == TakeoverDict(n.subdomain_takeovers)
    IN  ListOf(HostNames, DOMAIN old_takeovers \ DOMAIN new_tk)

\* Mutant: every endpoint of the new baseline is listed as new.
new_endpoints_unsubtracted(o, n) == ListOf(UrlSeq, DOMAIN n.endpoints)

\* Endpoints: the keys of the two endpoint dicts, subtracted both ways.
new_endpoints(o, n) ==
    ListOf(UrlSeq, DOMAIN n.endpoints \ DOMAIN o.endpoints)

removed_endpoints(o, n) ==
    ListOf(UrlSeq, DOMAIN o.endpoints \ DOMAIN n.endpoints)

\* Mutant: the delta's old and new status codes are exchanged.
status_code_delta_swapped(old_data, new_data) ==
    IF old_data.status_code # new_data.status_code
    THEN "status_code" :> [old |-> new_data.status_code, new |-> old_data.status_code]
    ELSE EmptyDict

\* The field-level deltas of one endpoint present in both baselines; each is
\* a dict with the one key it sets in endpoint_changes, or the empty dict.
status_code_delta(old_data, new_data) ==
    IF old_data.status_code # new_data.status_code
    THEN "status_code" :> [old |-> old_data.status_code, new |-> new_data.status_code]
    ELSE EmptyDict

title_delta(old_data, new_data) ==
    IF old_data.title # new_data.title
    THEN "title" :> [old |-> old_data.title, new |-> new_data.title]
    ELSE EmptyDict

\* round(length_diff_percent, 2), kept in hundredths of a percent.  The
\* quotient is rounded to the nearest hundredth; a tie needs old_length to
\* be a multiple of 32.
DiffPercentHundredths(old_length, new_length) ==
    LET num == 10000 * Abs(new_length - old_length)
        fl == num \div old_length
        r == num % old_length
    IN  IF 2 * r > old_length \/ (2 * r = old_length /\ fl % 2 = 1)
        THEN fl + 1 ELSE fl

\* Mutant: the threshold is inclusive (>= 10).
LengthDiffSignificant_inclusive(old_length, new_length) ==
    (100 * Abs(new_length - old_length)) \div old_length >= 10

\* abs(new_length - old_length) / old_length * 100 > 10: the division by
\* old_length, on the exact quotient.  For lengths below 2^52 the double the
\* code computes is above 10.0 exactly when the quotient is above a tenth.
LengthDiffSignificant(old_length, new_length) ==
    LET num == 100 * Abs(new_length - old_length)
    IN  \/ num \div old_length > 10
        \/ num \div old_length = 10 /\ num % old_length > 0

body_length_delta(old_data, new_data) ==
    LET old_length == old_data.body_length
        new_length == new_data.body_length
    IN  IF old_length > 0 /\ LengthDiffSignificant(old_length, new_length)
        THEN "body_length" :>
                [old |-> old_length, new |-> new_length,
                 diff_percent |-> DiffPercentHundredths(old_length, new_length)]
        ELSE EmptyDict

technologies_delta(old_data, new_data) ==
    LET added_tech == new_data.technologies \ old_data.technologies
        removed_tech == old_data.technologies \ new_data.technologies
    IN  IF added_tech # {} \/ removed_tech # {}
        THEN "technologies" :>
                [added |-> ListOf(TechSeq, added_tech),
                 removed |-> ListOf(TechSeq, removed_tech)]
        ELSE EmptyDict

\* [f for f in new_data['flags'] if f.get('severity') == 'high']
HighFlags(flags) ==
    SelectSeq(flags, LAMBDA f : "severity" \in DOMAIN f /\ f.severity = "high")

new_flags_delta(old_data, new_data) ==
    LET high_flags == HighFlags(new_data.flags)
    IN  IF high_flags # <<>> THEN "new_flags" :> high_flags ELSE EmptyDict

\* Mutant: only the status code is compared.
endpoint_changes_status_only(old_data, new_data) ==
    status_code_delta(old_data, new_data)

endpoint_changes(old_data, new_data) ==
    status_code_delta(old_data, new_data)
        @@ title_delta(old_data, new_data)
        @@ body_length_delta(old_data, new_data)
        @@ technologies_delta(old_data, new_data)
        @@ new_flags_delta(old_data, new_data)

RECURSIVE ChangedEntries(_, _, _)
\* The loop over old_endpoints & new_endpoints: one entry is appended for
\* each endpoint whose endpoint_changes is not empty.
ChangedEntries(urls, o, n) ==
    IF urls = <<>> THEN <<>>
    ELSE LET endpoint == Head(urls)
             rest == ChangedEntries(Tail(urls), o, n)
         IN  IF endpoint \in DOMAIN o.endpoints \cap DOMAIN n.endpoints
             THEN LET old_data == o.endpoints[endpoint]
                      new_data == n.endpoints[endpoint]
                      ec == endpoint_changes(old_data, new_data)
                  IN  IF DOMAIN ec # {}
                      THEN <<[url |-> endpoint, changes |-> ec,
                              old |-> old_data, new |-> new_data]>> \o rest
                      ELSE rest
             ELSE rest

changed_endpoints(o, n) == ChangedEntries(UrlSeq, o, n)

\* JavaScript files: the new files, and for a file whose hash changed the
\* endpoints it gained.
new_js_files(o, n) ==
    ListOf(JsSeq, DOMAIN n.javascript_files \ DOMAIN o.javascript_files)

JsGained(o, n, js_file) ==
    IF /\ js_file \in DOMAIN o.javascript_files \cap DOMAIN n.javascript_files
       /\ o.javascript_files[js_file].hash # n.javascript_files[js_file].hash
    THEN ListOf(JsEndpointSeq,
                n.javascript_files[js_file].endpoints
                    \ o.javascript_files[js_file].endpoints)
    ELSE <<>>

RECURSIVE ChangedJs(_, _, _)
ChangedJs(files, o, n) ==
    IF files = <<>> THEN [changed_js_files |-> <<>>, new_js_endpoints |-> <<>>]
    ELSE LET rest == ChangedJs(Tail(files), o, n)
             new_eps == JsGained(o, n, Head(files))
         IN  IF new_eps # <<>>
             THEN [changed_js_files |-> <<Head(files)>> \o rest.changed_js_files,
                   new_js_endpoints |-> new_eps \o rest.new_js_endpoints]
             ELSE rest

compare_baselines(o, n) ==
    [new_subdomains |-> new_subdomains(o, n),
     removed_subdomains |-> removed_subdomains(o, n),
     new_endpoints |-> new_endpoints(o, n),
     removed_endpoints |-> removed_endpoints(o, n),
     changed_endpoints |-> changed_endpoints(o, n),
     new_js_files |-> new_js_files(o, n),
     changed_js_files |-> ChangedJs(JsSeq, o, n).changed_js_files,
     new_js_endpoints |-> ChangedJs(JsSeq, o, n).new_js_endpoints,
     new_takeovers |-> new_takeovers(o, n),
     resolved_takeovers |-> resolved_takeovers(o, n)]

\* The dictionary compare_baselines starts from: every list empty.
EmptyChanges ==
    [new_subdomains |-> <<>>, removed_subdomains |-> <<>>,
     new_endpoints |-> <<>>, removed_endpoints |-> <<>>,
     changed_endpoints |-> <<>>, new_js_files |-> <<>>,
     changed_js_files |-> <<>>, new_js_endpoints |-> <<>>,
     new_takeovers |-> <<>>, resolved_takeovers |-> <<>>]

(***************************************************************************)
(* Notifier.notify_changes: the early return and the priority.             *)
(***************************************************************************)

\* Mutant: the early return looks at all ten lists of the change set.
NothingToNotify_all_lists(c) == \A k \in DOMAIN c : c[k] = <<>>

\* not any([...]): none of the eight lists it looks at holds anything.
NothingToNotify(c) ==
    /\ c.new_subdomains = <<>>
    /\ c.removed_subdomains = <<>>
    /\ c.new_endpoints = <<>>
    /\ c.removed_endpoints = <<>>
    /\ c.changed_endpoints = <<>>
    /\ c.new_js_endpoints = <<>>
    /\ c.new_takeovers = <<>>
    /\ c.resolved_takeovers = <<>>

\* Mutant: the severity is compared with 'critical', which no flag has.
HasHighFlag_critical(endpoint_change) ==
    /\ "new_flags" \in DOMAIN endpoint_change.changes
    /\ \E j \in DOMAIN endpoint_change.changes["new_flags"] :
            endpoint_change.changes["new_flags"][j].severity = "critical"

\* An entry of changed_endpoints whose new_flags holds a flag of severity high.
HasHighFlag(endpoint_change) ==
    /\ "new_flags" \in DOMAIN endpoint_change.changes
    /\ \E j \in DOMAIN endpoint_change.changes["new_flags"] :
            LET flag == endpoint_change.changes["new_flags"][j]
            IN  "severity" \in DOMAIN flag /\ flag.severity = "high"

\* Mutant: new takeovers do not set critical_priority.
critical_priority_flags_only(c) ==
    \E i \in DOMAIN c.changed_endpoints : HasHighFlag(c.changed_endpoints[i])

critical_priority(c) ==
    \/ c.new_takeovers # <<>>
    \/ \E i \in DOMAIN c.changed_endpoints : HasHighFlag(c.changed_endpoints[i])

\* Mutant: any changed endpoint sets high_priority, whatever its deltas.
high_priority_any_change(c) ==
    \/ c.new_takeovers # <<>>
    \/ c.new_subdomains # <<>>
    \/ c.new_endpoints # <<>>
    \/ c.changed_endpoints # <<>>

high_priority(c) ==
    \/ c.new_takeovers # <<>>
    \/ c.new_subdomains # <<>>
    \/ c.new_endpoints # <<>>
    \/ \E i \in DOMAIN c.changed_endpoints :
            \/ "status_code" \in DOMAIN c.changed_endpoints[i].changes
            \/ HasHighFlag(c.changed_endpoints[i])

\* Mutant: one if/elif chain in which a new takeover yields HIGH and the
\* flags are looked at only without one.
escalate_chain(c) ==
    IF c.new_takeovers # <<>> THEN "HIGH"
    ELSE IF critical_priority(c) THEN "CRITICAL"
    ELSE IF high_priority(c) THEN "HIGH"
    ELSE "NORMAL"

\* 'CRITICAL' if critical_priority else 'HIGH' if high_priority else 'NORMAL'
escalate(c) ==
    IF critical_priority(c) THEN "CRITICAL"
    ELSE IF high_priority(c) THEN "HIGH"
    ELSE "NORMAL"

(***************************************************************************)
(* Notifier.notify_changes: the channels and their messages.  A message is *)
(* what is handed to requests.post or to the mail server; of a Discord     *)
(* message the title (without its emoji) and the colour are kept.          *)
(***************************************************************************)

\* self.config.get(channel, {}).get('enabled')
Enabled(cfg, channel) == channel \in DOMAIN cfg /\ cfg[channel].enabled

\* the if/elif chain that sets should_notify
should_notify(notify_on, c) ==
    \/ "all" \in notify_on
    \/ critical_priority(c) /\ "subdomain_takeover" \in notify_on
    \/ c.new_subdomains # <<>> /\ "new_subdomain" \in notify_on
    \/ c.new_endpoints # <<>> /\ "new_endpoint" \in notify_on
    \/ c.changed_endpoints # <<>> /\ "changed_endpoint" \in notify_on

\* Mutant: the Discord message is critical whenever the priority is HIGH.
discord_is_critical_on_high(c) == high_priority(c)

\* self._send_discord_changes(domain, changes, critical_priority)
discord_is_critical(c) == critical_priority(c)

\* _send_discord_changes: the embed
_send_discord_changes(c, is_critical) ==
    [channel |-> "discord",
     title |-> IF ~is_critical THEN "Monitoring Alert" ELSE "CRITICAL ALERT",
     color |-> IF is_critical THEN 15158332
               ELSE IF c.new_subdomains # <<>> \/ c.new_endpoints # <<>>
                    THEN 15105570
               ELSE 3447003]

ChannelMessages(cfg, c, channel, message) ==
    IF Enabled(cfg, channel) /\ should_notify(cfg[channel].notify_on, c)
    THEN <<message>> ELSE <<>>

\* the messages notify_changes sends, in their order
notify_changes(cfg, c) ==
    IF NothingToNotify(c) THEN <<>>
    ELSE ChannelMessages(cfg, c, "slack", [channel |-> "slack"])
         \o ChannelMessages(cfg, c, "discord",
                            _send_discord_changes(c, discord_is_critical(c)))
         \o ChannelMessages(cfg, c, "telegram", [channel |-> "telegram"])
         \o (IF Enabled(cfg, "email")
                /\ (critical_priority(c) \/ high_priority(c))
             THEN <<[channel |-> "email"]>> ELSE <<>>)

\* the configuration of the notifier's tests
TestConfig ==
    [slack |-> [enabled |-> TRUE,
                notify_on |-> {"new_subdomain", "baseline_complete"}],
     discord |-> [enabled |-> TRUE,
                  notify_on |-> {"new_subdomain", "new_endpoint",
                                 "changed_endpoint", "baseline_complete"}],
     telegram |-> [enabled |-> FALSE, notify_on |-> {}],
     email |-> [enabled |-> FALSE, notify_on |-> {}]]

(***************************************************************************)
(* The inputs: pairs of baselines for the differ, change sets for the      *)
(* notifier.                                                               *)
(***************************************************************************)
FixedSubdomains == {HostSeq[1]}
FixedTakeovers == <<CandidateHigh(HostSeq[1])>>
FixedEndpoints == UrlSeq[1] :> BaseRecord
FixedJs ==
    JsSeq[1] :> [hash |-> "h1", endpoints |-> {JsEndpointSeq[1]}]

\* Baselines that differ in their subdomains.
BaselinesBySubdomains ==
    {MkBaseline(S, FixedTakeovers, FixedEndpoints, FixedJs) : S \in SUBSET Hosts}

\* Baselines that differ in their takeover candidates.
BaselinesByTakeovers ==
    {MkBaseline(FixedSubdomains, l, FixedEndpoints, FixedJs) : l \in TakeoverLists}

\* Baselines that differ in which endpoints they hold and in the status
\* code, title and flags of the first one.
RestRecords == {BaseRecord, [BaseRecord EXCEPT !.status_code = 403, !.flags = <<>>]}
FirstDicts == {EmptyDict} \cup {UrlSeq[1] :> r : r \in RecordsByStatus}
RestDicts == UNION {[D -> RestRecords] : D \in SUBSET (Urls \ {UrlSeq[1]})}
BaselinesByEndpoints ==
    {MkBaseline(FixedSubdomains, FixedTakeovers, f @@ g, FixedJs) :
        f \in FirstDicts, g \in RestDicts}

\* Baselines that differ in the body length of their endpoint.
BaselinesByLength ==
    {MkBaseline(FixedSubdomains, FixedTakeovers, UrlSeq[1] :> r, FixedJs) :
        r \in RecordsByLength}

\* Baselines that differ in the technologies of their endpoint.
BaselinesByTech ==
    {MkBaseline(FixedSubdomains, FixedTakeovers, UrlSeq[1] :> r, FixedJs) :
        r \in RecordsByTech}

\* Baselines that differ in their JavaScript files.
BaselinesByJs ==
    {MkBaseline(FixedSubdomains, FixedTakeovers, FixedEndpoints, js) : js \in JsDicts}

BaselineFamilies ==
    {BaselinesBySubdomains, BaselinesByTakeovers, BaselinesByEndpoints,
     BaselinesByLength, BaselinesByTech, BaselinesByJs}

Baselines == UNION BaselineFamilies

\* The change sets handed to notify_changes directly, as its tests do: any
\* combination of lists, the entries of changed_endpoints with any deltas.
QuietDeltas ==
    ("title" :> [old |-> "Forbidden", new |-> "Admin Panel"])
        @@ ("body_length" :> [old |-> 10, new |-> 20, diff_percent |-> 10000])
        @@ ("technologies" :> [added |-> <<"PHP">>, removed |-> <<>>])
ChangeMaps ==
    {s @@ q @@ f :
        s \in {EmptyDict, "status_code" :> [old |-> 403, new |-> 200]},
        q \in {EmptyDict, QuietDeltas},
        f \in {EmptyDict, "new_flags" :> <<FlagStatus>>,
               "new_flags" :> <<FlagStatus, FlagAdmin>>}}
ChangedLists ==
    UNION {[1..k -> [url : {UrlSeq[1]}, changes : ChangeMaps]] : k \in 0..MaxChanged}
ChangeSets ==
    [new_subdomains : {<<>>, <<HostSeq[1]>>},
     removed_subdomains : {<<>>, <<HostSeq[1]>>},
     new_endpoints : {<<>>, <<UrlSeq[1]>>},
     removed_endpoints : {<<>>, <<UrlSeq[1]>>},
     changed_endpoints : ChangedLists,
     new_js_files : {<<>>},
     changed_js_files : {<<>>},
     new_js_endpoints : {<<>>, <<JsEndpointSeq[1]>>},
     new_takeovers : {l \in TakeoverLists : Len(l) <= 1},
     resolved_takeovers : {<<>>, <<HostSeq[1]>>}]

(***************************************************************************)
(* The state machine.                                                      *)
(*   old, new   the two baselines compare_baselines is called with         *)
(*   changes    the change set: compare_baselines' result                  *)
(*   priority   the priority notify_changes has printed, NoPriority before *)
(*              it has, and when it returned early                         *)
(*   pc         "start", "compared", "notified"                            *)
(***************************************************************************)
NoPriority == "none"

Init ==
    /\ RunUnused /\ MultiUnused
    /\ config = TestConfig
    /\ sent = <<>>
    /\ \E F \in BaselineFamilies : old \in F /\ new \in F
    /\ changes = EmptyChanges
    /\ priority = NoPriority
    /\ pc = "start"
    /\ ClassifyUnused
    /\ ProbeUnused
    /\ TakeoverUnused

\* changes = compare_baselines(domain, old, new)
CompareBaselines ==
    /\ pc = "start"
    /\ changes' = compare_baselines(old, new)
    /\ pc' = "compared"
    /\ UNCHANGED <<runVars, notifyVars, multiVars,
                   old, new, priority, classifyVars, probeVars, takeoverVars>>

\* notify_changes(domain, changes)
NotifyChanges ==
    /\ pc = "compared"
    /\ priority' = IF NothingToNotify(changes) THEN NoPriority ELSE escalate(changes)
    /\ sent' = sent \o notify_changes(config, changes)
    /\ pc' = "notified"
    /\ UNCHANGED <<runVars, config, multiVars,
                   old, new, changes, classifyVars, probeVars, takeoverVars>>

Next == CompareBaselines \/ NotifyChanges

Spec == Init /\ [][Next]_vars

\* notify_changes called with a change set of its caller's making.
InitEscalate ==
    /\ RunUnused /\ MultiUnused
    /\ config = TestConfig
    /\ sent = <<>>
    /\ old = EmptyBaseline
    /\ new = EmptyBaseline
    /\ changes \in ChangeSets
    /\ priority = NoPriority
    /\ pc = "compared"
    /\ ClassifyUnused
    /\ ProbeUnused
    /\ TakeoverUnused

NextEscalate == NotifyChanges

SpecEscalate == InitEscalate /\ [][NextEscalate]_vars

(***************************************************************************)
(* Properties.                                                             *)
(***************************************************************************)
Compared == pc \in {"compared", "notified"}

\* The URLs both baselines hold.
CommonUrls == DOMAIN old.endpoints \cap DOMAIN new.endpoints

\* The entries of changed_endpoints for one URL.
EntriesFor(u) == SelectSeq(changes.changed_endpoints, LAMBDA e : e.url = u)

NoDuplicates(l) == \A i, j \in DOMAIN l : l[i] = l[j] => i = j

AllListsEmpty(c) ==
    /\ c.new_subdomains = <<>> /\ c.removed_subdomains = <<>>
    /\ c.new_endpoints = <<>> /\ c.removed_endpoints = <<>>
    /\ c.changed_endpoints = <<>>
    /\ c.new_takeovers = <<>> /\ c.resolved_takeovers = <<>>

\* C1: comparing a baseline with itself yields a change set in which every
\* list is empty, also when its endpoints carry flags of severity high.
C1_SelfDiffEmpty ==
    (Compared /\ old = new) => AllListsEmpty(changes)

\* The flags of the new record of severity high whose message is the
\* message of no flag of the old record.
UnseenHighFlags(old_data, new_data) ==
    SelectSeq(new_data.flags,
              LAMBDA f : /\ f.severity = "high"
                         /\ \A i \in DOMAIN old_data.flags :
                                old_data.flags[i].message # f.message)

\* C2: for a URL in both baselines the new_flags delta holds exactly the
\* high-severity flags of the new record whose message the old record does
\* not have; a high flag the old record has already is not reported and
\* does not by itself put the URL in changed_endpoints.
C2_NewFlagsByMessage ==
    Compared =>
        \A u \in CommonUrls :
            LET expected == UnseenHighFlags(old.endpoints[u], new.endpoints[u])
                entries == EntriesFor(u)
            IN  /\ expected # <<>> =>
                    /\ entries # <<>>
                    /\ \A i \in DOMAIN entries :
                        /\ "new_flags" \in DOMAIN entries[i].changes
                        /\ entries[i].changes["new_flags"] = expected
                /\ expected = <<>> =>
                    \A i \in DOMAIN entries :
                        /\ "new_flags" \notin DOMAIN entries[i].changes
                        /\ DOMAIN entries[i].changes # {}

\* C3: new_subdomains is new.subdomains minus old.subdomains and
\* removed_subdomains is old.subdomains minus new.subdomains, so the two
\* are disjoint, and new_subdomains(old, new) is removed_subdomains(new, old).
C3_SubdomainDiff ==
    Compared =>
        /\ Range(changes.new_subdomains) = DOMAIN new.subdomains \ DOMAIN old.subdomains
        /\ Range(changes.removed_subdomains) = DOMAIN old.subdomains \ DOMAIN new.subdomains
        /\ NoDuplicates(changes.new_subdomains)
        /\ NoDuplicates(changes.removed_subdomains)
        /\ Range(changes.new_subdomains) \cap Range(changes.removed_subdomains) = {}
        /\ Range(changes.new_subdomains)
              = Range(compare_baselines(new, old).removed_subdomains)

C3_Witness ==
    /\ pc = "compared"
    /\ changes.new_subdomains # <<>>
    /\ changes.removed_subdomains # <<>>

\* C4: for a URL in both baselines a body_length delta is reported exactly
\* when old_len > 0 and |new_len - old_len| * 100 > 10 * old_len: a change
\* of exactly 10 percent reports none, and neither does old_len = 0.
C4_BodyLengthThreshold ==
    Compared =>
        \A u \in CommonUrls :
            LET old_len == old.endpoints[u].body_length
                new_len == new.endpoints[u].body_length
                reported == \E i \in DOMAIN changes.changed_endpoints :
                                /\ changes.changed_endpoints[i].url = u
                                /\ "body_length" \in DOMAIN changes.changed_endpoints[i].changes
            IN  reported <=> (old_len > 0 /\ Abs(new_len - old_len) * 100 > 10 * old_len)

\* A change of exactly 10 percent (20 to 22), compared and not reported.
C4_Witness ==
    /\ pc = "compared"
    /\ \E u \in CommonUrls :
        /\ old.endpoints[u].body_length = 20
        /\ new.endpoints[u].body_length = 22
        /\ \A i \in DOMAIN changes.changed_endpoints :
            "body_length" \notin DOMAIN changes.changed_endpoints[i].changes

TakeoverSubdomains(l) == {l[i].subdomain : i \in DOMAIN l}

\* C5: new_takeovers holds exactly the candidates of the new baseline whose
\* subdomain no candidate of the old baseline has, resolved_takeovers exactly
\* the subdomains with a candidate in the old baseline and none in the new;
\* a subdomain with a candidate in both is in neither list.
C5_TakeoversBySubdomain ==
    Compared =>
        /\ Range(changes.new_takeovers)
              = {t \in Range(new.subdomain_takeovers) :
                    t.subdomain \notin TakeoverSubdomains(old.subdomain_takeovers)}
        /\ Range(changes.resolved_takeovers)
              = TakeoverSubdomains(old.subdomain_takeovers)
                    \ TakeoverSubdomains(new.subdomain_takeovers)
        /\ NoDuplicates(changes.new_takeovers)
        /\ NoDuplicates(changes.resolved_takeovers)
        /\ \A s \in TakeoverSubdomains(old.subdomain_takeovers)
                        \cap TakeoverSubdomains(new.subdomain_takeovers) :
              /\ s \notin TakeoverSubdomains(changes.new_takeovers)
              /\ s \notin Range(changes.resolved_takeovers)

\* A subdomain with a candidate of another service and confidence in each
\* baseline, beside a candidate only the new baseline has.
C5_Witness ==
    /\ pc = "compared"
    /\ changes.new_takeovers # <<>>
    /\ \E i \in DOMAIN old.subdomain_takeovers, j \in DOMAIN new.subdomain_takeovers :
        /\ old.subdomain_takeovers[i].subdomain = new.subdomain_takeovers[j].subdomain
        /\ old.subdomain_takeovers[i].service # new.subdomain_takeovers[j].service
        /\ old.subdomain_takeovers[i].confidence # new.subdomain_takeovers[j].confidence

(***************************************************************************)
(* Properties of the priority.                                             *)
(***************************************************************************)
Notified == pc = "notified"

SomeHighFlag(c) ==
    \E i \in DOMAIN c.changed_endpoints :
        /\ "new_flags" \in DOMAIN c.changed_endpoints[i].changes
        /\ \E f \in Range(c.changed_endpoints[i].changes["new_flags"]) :
                f.severity = "high"

SomeStatusChange(c) ==
    \E i \in DOMAIN c.changed_endpoints :
        "status_code" \in DOMAIN c.changed_endpoints[i].changes

\* C6: the priority is critical for every change set whose new_takeovers
\* is not empty, whatever its other lists hold.
C6_TakeoverIsCritical ==
    (Notified /\ changes.new_takeovers # <<>>) => priority = "CRITICAL"

\* A change set with a new takeover and nothing else.
C6_Witness ==
    /\ Notified
    /\ changes.new_takeovers # <<>>
    /\ changes.new_subdomains = <<>> /\ changes.removed_subdomains = <<>>
    /\ changes.new_endpoints = <<>> /\ changes.removed_endpoints = <<>>
    /\ changes.changed_endpoints = <<>> /\ changes.new_js_endpoints = <<>>
    /\ changes.resolved_takeovers = <<>>

\* C7: the priority is critical for every change set with a changed
\* endpoint whose new_flags holds a flag of severity high, also when the
\* change set matches the high rule as well.
C7_HighFlagIsCritical ==
    (Notified /\ SomeHighFlag(changes)) => priority = "CRITICAL"

\* A high flag without any takeover, beside a new subdomain, a new endpoint
\* and a status-code change.
C7_Witness ==
    /\ Notified
    /\ SomeHighFlag(changes)
    /\ changes.new_takeovers = <<>>
    /\ changes.new_subdomains # <<>>
    /\ changes.new_endpoints # <<>>
    /\ SomeStatusChange(changes)

HighRule(c) ==
    \/ c.new_subdomains # <<>>
    \/ c.new_endpoints # <<>>
    \/ SomeStatusChange(c)

\* C8: without new takeovers and without a high flag in any new_flags, the
\* priority is high exactly when there is a new subdomain, a new endpoint or
\* a status-code delta, and normal in every other case.
C8_HighOrNormal ==
    (changes.new_takeovers = <<>> /\ ~SomeHighFlag(changes)) =>
        /\ escalate(changes) = IF HighRule(changes) THEN "HIGH" ELSE "NORMAL"
        /\ (Notified /\ ~NothingToNotify(changes)) => priority = escalate(changes)

\* Only removals, a resolved takeover and title, body-length and technology
\* deltas: notified at priority normal.
C8_Witness ==
    /\ Notified
    /\ priority = "NORMAL"
    /\ changes.removed_subdomains # <<>>
    /\ changes.removed_endpoints # <<>>
    /\ changes.resolved_takeovers # <<>>
    /\ \E i \in DOMAIN changes.changed_endpoints :
        {"title", "body_length", "technologies"} \subseteq DOMAIN changes.changed_endpoints[i].changes

Rank(p) == CASE p = "NORMAL" -> 1 [] p = "HIGH" -> 2 [] p = "CRITICAL" -> 3

\* C9: appending a takeover candidate to new_takeovers never lowers the
\* priority, in the order normal < high < critical.
C9_MonotonicInTakeovers ==
    \A t \in Candidates :
        Rank(escalate([changes EXCEPT !.new_takeovers = Append(@, t)]))
            >= Rank(escalate(changes))

\* A change set that is critical by its flags alone, to which a takeover
\* can be appended.
C9_Witness ==
    /\ Notified
    /\ priority = "CRITICAL"
    /\ changes.new_takeovers = <<>>

\* The scenario of C10 at URL u: in both baselines, 403 to 200, another
\* title, and one high-severity flag the old record does not have.
StatusOpened(u) ==
    /\ u \in CommonUrls
    /\ old.endpoints[u].status_code = 403
    /\ new.endpoints[u].status_code = 200
    /\ old.endpoints[u].title # new.endpoints[u].title
    /\ Len(UnseenHighFlags(old.endpoints[u], new.endpoints[u])) = 1

\* C10: for such an endpoint the differ produces exactly one entry, with a
\* status_code delta from 403 to 200, a title delta and a new_flags delta
\* holding that flag, and the priority of the change set is critical.
C10_EndToEnd ==
    \A u \in Urls :
        (Compared /\ StatusOpened(u)) =>
            /\ Len(EntriesFor(u)) = 1
            /\ LET ec == EntriesFor(u)[1].changes
               IN  /\ {"status_code", "title", "new_flags"} \subseteq DOMAIN ec
                   /\ ec["status_code"] = [old |-> 403, new |-> 200]
                   /\ ec["title"] = [old |-> old.endpoints[u].title,
                                      new |-> new.endpoints[u].title]
                   /\ UnseenHighFlags(old.endpoints[u], new.endpoints[u])[1]
                          \in Range(ec["new_flags"])
            /\ escalate(changes) = "CRITICAL"
            /\ Notified => priority = "CRITICAL"

C10_Witness ==
    /\ Notified
    /\ \E u \in Urls :
        /\ StatusOpened(u)
        /\ old.endpoints[u].flags = <<>>
        /\ Len(new.endpoints[u].flags) = 1

(***************************************************************************)
(* Python strings are TLA+ strings; the string operations the code uses.   *)
(* Positions are 1-based, and 0 stands for "not found".                    *)
(***************************************************************************)
\* sub in s
Contains(s, sub) ==
    \E i \in 1..(Len(s) - Len(sub) + 1) : SubSeq(s, i, i + Len(sub) - 1) = sub

\* s.endswith(suffix)
EndsWith(s, suffix) ==
    /\ Len(suffix) <= Len(s)
    /\ SubSeq(s, Len(s) - Len(suffix) + 1, Len(s)) = suffix

\* s.find(sub)
Find(s, sub) ==
    IF Contains(s, sub)
    THEN CHOOSE i \in 1..(Len(s) - Len(sub) + 1) :
            /\ SubSeq(s, i, i + Len(sub) - 1) = sub
            /\ \A j \in 1..(i - 1) : SubSeq(s, j, j + Len(sub) - 1) # sub
    ELSE 0

\* s.rfind(sub)
RFind(s, sub) ==
    IF Contains(s, sub)
    THEN CHOOSE i \in 1..(Len(s) - Len(sub) + 1) :
            /\ SubSeq(s, i, i + Len(sub) - 1) = sub
            /\ \A j \in (i + 1)..(Len(s) - Len(sub) + 1) :
                  SubSeq(s, j, j + Len(sub) - 1) # sub
    ELSE 0

RECURSIVE Split(_, _)
\* s.split(sep)
Split(s, sep) ==
    LET i == Find(s, sep)
    IN  IF i = 0 THEN <<s>>
        ELSE <<SubSeq(s, 1, i - 1)>>
             \o Split(SubSeq(s, i + Len(sep), Len(s)), sep)

\* s.split(sep, 1)
SplitOnce(s, sep) ==
    LET i == Find(s, sep)
    IN  IF i = 0 THEN <<s>>
        ELSE <<SubSeq(s, 1, i - 1), SubSeq(s, i + Len(sep), Len(s))>>

UpperLetters == "ABCDEFGHIJKLMNOPQRSTUVWXYZ"
LowerLetters == "abcdefghijklmnopqrstuvwxyz"

LowerChar(c) ==
    LET i == Find(UpperLetters, c)
    IN  IF i = 0 THEN c ELSE SubSeq(LowerLetters, i, i)

RECURSIVE Lower(_)
\* s.lower(), on ASCII text
Lower(s) == IF s = "" THEN "" ELSE LowerChar(Head(s)) \o Lower(Tail(s))

RECURSIVE PlusToSpace(_)
\* s.replace('+', ' ')
PlusToSpace(s) ==
    IF s = "" THEN ""
    ELSE (IF Head(s) = "+" THEN " " ELSE Head(s)) \o PlusToSpace(Tail(s))

Last(l) == l[Len(l)]

RECURSIVE JoinWith(_, _)
\* sep.join(l)
JoinWith(sep, l) ==
    IF l = <<>> THEN ""
    ELSE IF Len(l) = 1 THEN Head(l)
    ELSE Head(l) \o sep \o JoinWith(sep, Tail(l))

(***************************************************************************)
(* urllib.parse.urlparse and parse_qs as classify_url uses them            *)
(* (modules/wayback_analyzer.py).  The URLs of the model hold no control   *)
(* characters and no percent-escapes, which urlparse would strip and       *)
(* parse_qs would decode.                                                  *)
(***************************************************************************)
SchemeChars == LowerLetters \o UpperLetters \o "0123456789+-."

HasScheme(u) ==
    LET i == Find(u, ":")
    IN  /\ i > 1
        /\ Contains(LowerLetters \o UpperLetters, Head(u))
        /\ \A j \in 1..(i - 1) : Contains(SchemeChars, SubSeq(u, j, j))

\* The position of the first of "/", "?", "#" in s, Len(s) + 1 when
\* there is none: where the network location ends.
NetlocEnd(s) ==
    LET ends == {Find(s, d) : d \in {"/", "?", "#"}} \ {0}
    IN  IF ends = {} THEN Len(s) + 1
        ELSE CHOOSE i \in ends : \A j \in ends : i <= j

\* The path without the parameters of its last segment.
SplitParams(p) ==
    LET slash == RFind(p, "/")
        rest  == SubSeq(p, slash + 1, Len(p))
        i     == Find(rest, ";")
    IN  IF i = 0 THEN p ELSE SubSeq(p, 1, slash + i - 1)

\* parsed = urlparse(url)
urlparse(u) ==
    LET colon    == Find(u, ":")
        scheme   == IF HasScheme(u) THEN Lower(SubSeq(u, 1, colon - 1)) ELSE ""
        u1       == IF HasScheme(u) THEN SubSeq(u, colon + 1, Len(u)) ELSE u
        slashes  == Len(u1) >= 2 /\ SubSeq(u1, 1, 2) = "//"
        u2       == IF slashes THEN SubSeq(u1, 3, Len(u1)) ELSE u1
        netloc   == IF slashes THEN SubSeq(u2, 1, NetlocEnd(u2) - 1) ELSE ""
        u3       == IF slashes THEN SubSeq(u2, NetlocEnd(u2), Len(u2)) ELSE u1
        u4       == SplitOnce(u3, "#")[1]
        pq       == SplitOnce(u4, "?")
    IN  [scheme |-> scheme,
         netloc |-> netloc,
         path   |-> SplitParams(pq[1]),
         query  |-> IF Len(pq) = 2 THEN pq[2] ELSE ""]

RECURSIVE ParamNames(_, _)
\* list(parse_qs(query).keys()): the names of the fields that have a
\* value, each once, in the order of their first appearance.
ParamNames(fields, seen) ==
    IF fields = <<>> THEN seen
    ELSE LET nv   == SplitOnce(Head(fields), "=")
             name == PlusToSpace(nv[1])
         IN  IF Len(nv) = 2 /\ nv[2] # "" /\ name \notin Range(seen)
             THEN ParamNames(Tail(fields), Append(seen, name))
             ELSE ParamNames(Tail(fields), seen)

parse_qs_keys(query) == ParamNames(Split(query, "&"), <<>>)

(***************************************************************************)
(* WaybackAnalyzer.classify_url (modules/wayback_analyzer.py).             *)
(***************************************************************************)
\* self.file_categories, in its declaration order
file_categories == <<
    [category |-> "backup", priority |-> "high",
     extensions |-> <<".bak", ".backup", ".old", ".orig", ".save", ".swp",
                     ".tmp", ".~", ".copy", ".db.bak", ".sql.bak", ".tar.gz",
                     ".zip", ".rar">>,
     keywords |-> <<"backup", "old", "copy", "archive", "dump">>],
    [category |-> "database", priority |-> "high",
     extensions |-> <<".sql", ".db", ".sqlite", ".sqlite3", ".mdb", ".accdb",
                     ".pdb", ".dbf", ".dump">>,
     keywords |-> <<"database", "dump", "export", "mysql", "postgres",
                   "mongodb">>],
    [category |-> "config", priority |-> "high",
     extensions |-> <<".conf", ".config", ".cfg", ".ini", ".env", ".yml",
                     ".yaml", ".properties", ".xml", ".json", ".toml">>,
     keywords |-> <<"config", "configuration", "settings", "env",
                   "environment">>],
    [category |-> "source_code", priority |-> "medium",
     extensions |-> <<".php", ".asp", ".aspx", ".jsp", ".java", ".py", ".rb",
                     ".pl", ".cgi", ".sh", ".bat", ".ps1">>,
     keywords |-> <<"source", "src", "code">>],
    [category |-> "documents", priority |-> "medium",
     extensions |-> <<".pdf", ".doc", ".docx", ".xls", ".xlsx", ".ppt",
                     ".pptx", ".odt", ".ods", ".odp", ".rtf", ".txt", ".csv">>,
     keywords |-> <<"document", "report", "spreadsheet", "presentation">>],
    [category |-> "credentials", priority |-> "critical",
     extensions |-> <<".key", ".pem", ".p12", ".pfx", ".jks", ".keystore",
                     ".crt", ".cer", ".der">>,
     keywords |-> <<"password", "passwd", "pwd", "credential", "secret",
                   "key", "token", "auth", "certificate", "private">>],
    [category |-> "logs", priority |-> "medium",
     extensions |-> <<".log", ".logs", ".out", ".err", ".trace">>,
     keywords |-> <<"log", "logs", "error", "debug", "trace">>],
    [category |-> "api_docs", priority |-> "high",
     extensions |-> <<".wsdl", ".wadl", ".raml", ".swagger", ".openapi">>,
     keywords |-> <<"api", "swagger", "openapi", "graphql", "rest", "soap">>],
    [category |-> "version_control", priority |-> "critical",
     extensions |-> <<".git", ".svn", ".hg", ".bzr">>,
     keywords |-> <<"git", "svn", "mercurial", "bazaar", ".git/config">>],
    [category |-> "sensitive", priority |-> "high",
     extensions |-> <<>>,
     keywords |-> <<"admin", "dashboard", "panel", "console", "cpanel",
                   "phpmyadmin", "upload", "backup", "test", "dev",
                   "staging">>]
>>

\* self.interesting_params
interesting_params ==
    <<"id", "user", "username", "email", "file", "path", "url",
      "redirect", "next", "return", "callback", "debug",
      "admin", "token", "api_key", "key", "secret", "password",
      "query", "search", "q", "page", "redirect_uri">>

priority_levels == [critical |-> 4, high |-> 3, medium |-> 2, low |-> 1]

\* classification['file_extension'] of a path without a dot
None == "None"

\* the extension test of one category
ExtensionMatches(rules, file_extension, path) ==
    /\ file_extension # None
    /\ \E i \in DOMAIN rules.extensions :
          \/ file_extension = rules.extensions[i]
          \/ EndsWith(path, rules.extensions[i])

\* the keyword test of one category: the query alone
KeywordMatches_query_only(rules, path, query) ==
    \E i \in DOMAIN rules.keywords : Contains(query, rules.keywords[i])

\* the keyword test of one category
KeywordMatches(rules, path, query) ==
    \E i \in DOMAIN rules.keywords :
        \/ Contains(path, rules.keywords[i])
        \/ Contains(query, rules.keywords[i])

\* the priority after a category has matched: that of the last match
update_priority_last_matched(current_priority, new_priority) == new_priority

\* the priority of a classification whose priority is current_priority
\* after a category of the priority new_priority has matched
update_priority(current_priority, new_priority) ==
    IF priority_levels[new_priority] > priority_levels[current_priority]
    THEN new_priority
    ELSE current_priority

RECURSIVE classify_by_categories(_, _, _, _)
\* the loop over the categories, examined in the order of `categories`
classify_by_categories(categories, c, path, query) ==
    IF categories = <<>> THEN c
    ELSE LET rules   == Head(categories)
             matched == \/ ExtensionMatches(rules, c.file_extension, path)
                        \/ KeywordMatches(rules, path, query)
             c1      == IF matched
                        THEN [c EXCEPT
                                !.categories = Append(@, rules.category),
                                !.priority = update_priority(@, rules.priority)]
                        ELSE c
         IN  classify_by_categories(Tail(categories), c1, path, query)

\* the parameters of the watchlist
InterestingParams(parameter_names) ==
    SelectSeq(parameter_names,
              LAMBDA param : Lower(param) \in Range(interesting_params))

\* the priority bonus: the whole score but for the bonus
priority_bonus_none(p) == 0

\* the priority bonus
priority_bonus(p) ==
    IF p = "critical" THEN 50
    ELSE IF p = "high" THEN 30
    ELSE IF p = "medium" THEN 10
    ELSE 0

\* the score
Score(c) ==
    Len(c.categories) * 10 + Len(c.interesting_params) * 5
    + priority_bonus(c.priority)

\* classify_url(url), the categories examined in the order of `categories`
classify_url_in(categories, u) ==
    LET parsed == urlparse(u)
        path   == Lower(parsed.path)
        query  == Lower(parsed.query)
        names  == IF parsed.query # "" THEN parse_qs_keys(parsed.query)
                  ELSE <<>>
        c0     == [url |-> u,
                   categories |-> <<>>,
                   priority |-> "low",
                   file_extension |-> IF Contains(path, ".")
                                      THEN "." \o Last(Split(path, "."))
                                      ELSE None,
                   has_parameters |-> parsed.query # "",
                   parameter_names |-> names,
                   interesting_params |-> InterestingParams(names),
                   path_parts |-> Split(parsed.path, "/"),
                   score |-> 0]
        c1     == classify_by_categories(categories, c0, path, query)
    IN  [c1 EXCEPT !.score = Score(c1)]

classify_url(u) == classify_url_in(file_categories, u)

(***************************************************************************)
(* The URLs classify_url is called with: a path of a directory, a file     *)
(* name and an extension, alone or behind a scheme and a host, and a       *)
(* query of at most MaxParams fields.                                      *)
(***************************************************************************)
UrlPaths ==
    {d \o f \o e :
        d \in {"", "/backup", "/admin"},
        f \in {"/db", "/secret", "/logo", "/Index"},
        e \in {"", ".sql.bak", ".key", ".png", ".SQL", ".bak;old", ".php#key"}}

UrlQueries ==
    LET QueryFields == {"id=1", "ID=2", "token=", "debug", "x=1"}
    IN  {JoinWith("&", fields) :
            fields \in UNION {[1..n -> QueryFields] : n \in 1..MaxParams}}

ClassifiedUrls ==
    {pre \o p : pre \in {"", "https://example.com"}, p \in UrlPaths}
    \cup {u \o "?" \o q : u \in {"/backup/db.sql.bak",
                                "https://example.com/Index.png"},
                          q \in UrlQueries}

MonitorUnused ==
    /\ old = EmptyBaseline
    /\ new = EmptyBaseline
    /\ changes = EmptyChanges
    /\ priority = NoPriority

InitClassify ==
    /\ RunUnused /\ NotifyUnused /\ MultiUnused
    /\ url \in ClassifiedUrls
    /\ classification = None
    /\ pc = "start"
    /\ MonitorUnused
    /\ ProbeUnused
    /\ TakeoverUnused

\* classification = self.classify_url(url)
ClassifyUrl ==
    /\ pc = "start"
    /\ classification' = classify_url(url)
    /\ pc' = "classified"
    /\ UNCHANGED <<runVars, notifyVars, multiVars,
                   url, monitorVars, probeVars, takeoverVars>>

NextClassify == ClassifyUrl

SpecClassify == InitClassify /\ [][NextClassify]_vars

Classified == pc = "classified"

(***************************************************************************)
(* Properties of classify_url.                                             *)
(***************************************************************************)
Reverse(l) == [i \in 1..Len(l) |-> l[Len(l) + 1 - i]]

\* the priority the table gives the category `name`
TablePriority(name) ==
    (CHOOSE rules \in Range(file_categories) : rules.category = name).priority

\* the categories of the table that the URL u matches
MatchingCategories(u) ==
    LET parsed == urlparse(u)
        path   == Lower(parsed.path)
        query  == Lower(parsed.query)
        ext    == IF Contains(path, ".") THEN "." \o Last(Split(path, "."))
                  ELSE None
    IN  {rules.category : rules \in
            {r \in Range(file_categories) :
                \/ ExtensionMatches(r, ext, path)
                \/ KeywordMatches(r, path, query)}}

\* p is the greatest priority of the categories cats, "low" when there is none
IsMaxPriority(p, cats) ==
    IF cats = {} THEN p = "low"
    ELSE /\ \E name \in cats : TablePriority(name) = p
         /\ \A name \in cats :
               priority_levels[TablePriority(name)] <= priority_levels[p]

\* C11: the priority classify_url returns is the greatest priority, in the
\* order critical > high > medium > low, of the categories the URL matched,
\* whatever the order the categories are examined in; a URL that matches no
\* category gets an empty category list and the priority low.
C11_PriorityIsMaximum ==
    Classified =>
        /\ Range(classification.categories) = MatchingCategories(url)
        /\ IsMaxPriority(classification.priority, MatchingCategories(url))
        /\ classify_url_in(Reverse(file_categories), url).priority
              = classification.priority
        /\ MatchingCategories(url) = {} =>
              /\ classification.categories = <<>>
              /\ classification.priority = "low"

\* a URL that matched a critical category and, after it, one of a lower
\* priority
C11_Witness ==
    /\ Classified
    /\ classification.priority = "critical"
    /\ \E i, j \in DOMAIN classification.categories :
          /\ i < j
          /\ TablePriority(classification.categories[i]) = "critical"
          /\ TablePriority(classification.categories[j]) = "high"

\* the parameter names of the classification that are on the watchlist
InterestingNames(c) ==
    {name \in Range(c.parameter_names) :
        Lower(name) \in Range(interesting_params)}

ScoreBonus == [critical |-> 50, high |-> 30, medium |-> 10, low |-> 0]

\* C12: the score is 10 times the number of matched categories, plus 5
\* times the number of interesting parameters, plus 50, 30, 10 or 0 for the
\* priority critical, high, medium or low; a URL with no category and no
\* interesting parameter scores 0.
C12_Score ==
    Classified =>
        /\ classification.score
              = 10 * Cardinality(MatchingCategories(url))
                + 5 * Cardinality(InterestingNames(classification))
                + ScoreBonus[classification.priority]
        /\ (MatchingCategories(url) = {}
            /\ InterestingNames(classification) = {}) =>
              classification.score = 0

\* a URL with two categories of priority high and two interesting parameters
C12_Witness ==
    /\ Classified
    /\ Cardinality(MatchingCategories(url)) = 2
    /\ Cardinality(InterestingNames(classification)) = 2
    /\ classification.priority = "high"
    /\ classification.score = 60

\* C13 as the specification states it: /backup/db.sql.bak is classified
\* with the categories backup and database among its categories, and the
\* priority high.
C13_BackupAndDatabase ==
    (Classified /\ url = "/backup/db.sql.bak") =>
        /\ {"backup", "database"} \subseteq Range(classification.categories)
        /\ classification.priority = "high"

\* C13: /backup/db.sql.bak is classified with the categories backup (by its
\* extension) and sensitive (by the keyword backup in its path) and no
\* other, database not among them, and the priority high.
C13_BackupAndSensitive ==
    (Classified /\ url = "/backup/db.sql.bak") =>
        /\ classification.categories = <<"backup", "sensitive">>
        /\ classification.priority = "high"

C13_Witness ==
    /\ Classified
    /\ url = "/backup/db.sql.bak"
    /\ classification.file_extension = ".bak"

(***************************************************************************)
(* HTTPMonitor.flag_target (modules/http_monitor.py).                      *)
(***************************************************************************)
\* self.high_value_keywords, in its declaration order
high_value_keywords == <<
    [category |-> "admin",
     keywords |-> <<"admin", "administrator", "console", "dashboard", "panel", "manage">>],
    [category |-> "auth",
     keywords |-> <<"login", "signin", "authenticate", "auth", "sso", "oauth">>],
    [category |-> "backup",
     keywords |-> <<"backup", "bak", "old", "archive", "dump", "sql">>],
    [category |-> "dev",
     keywords |-> <<"dev", "development", "test", "staging", "debug", "beta">>],
    [category |-> "api",
     keywords |-> <<"api", "graphql", "rest", "endpoint", "swagger", "docs">>],
    [category |-> "upload",
     keywords |-> <<"upload", "uploader", "file", "attachment", "media">>],
    [category |-> "sensitive",
     keywords |-> <<"config", "env", "secret", "key", "token", "password">>],
    [category |-> "internal",
     keywords |-> <<"internal", "private", "corp", "vpn", "intranet">>]
>>

\* self.outdated_tech, in its declaration order
outdated_tech == <<
    [tech_name |-> "Apache", vulnerable_versions |-> <<"2.4.49", "2.4.50">>],
    [tech_name |-> "nginx", vulnerable_versions |-> <<"1.18.0", "1.19.0">>],
    [tech_name |-> "PHP", vulnerable_versions |-> <<"7.3", "7.4", "5.6">>],
    [tech_name |-> "WordPress", vulnerable_versions |-> <<"5.8", "5.9">>],
    [tech_name |-> "jQuery", vulnerable_versions |-> <<"1.", "2.", "3.0", "3.1", "3.2">>],
    [tech_name |-> "Drupal", vulnerable_versions |-> <<"7.", "8.">>],
    [tech_name |-> "Joomla", vulnerable_versions |-> <<"3.">>],
    [tech_name |-> "IIS", vulnerable_versions |-> <<"8.5", "10.0">>]
>>

\* self.interesting_statuses
interesting_statuses ==
    (200 :> "OK") @@
    (201 :> "Created") @@
    (204 :> "No Content") @@
    (301 :> "Moved Permanently") @@
    (302 :> "Found (Redirect)") @@
    (307 :> "Temporary Redirect") @@
    (308 :> "Permanent Redirect") @@
    (400 :> "Bad Request") @@
    (401 :> "Unauthorized") @@
    (403 :> "Forbidden") @@
    (404 :> "Not Found") @@
    (405 :> "Method Not Allowed") @@
    (500 :> "Internal Server Error") @@
    (502 :> "Bad Gateway") @@
    (503 :> "Service Unavailable")

\* result['status_code'] of a record without a status code (None)
NoStatusCode == 0

security_headers ==
    <<"X-Frame-Options", "X-Content-Type-Options",
      "Strict-Transport-Security", "Content-Security-Policy">>

default_titles ==
    <<"apache", "nginx", "welcome", "default page", "test page", "it works">>

\* the first keyword of `keywords` that text contains, 0 when none does
FirstKeyword(keywords, text) ==
    IF \E i \in DOMAIN keywords : Contains(text, keywords[i])
    THEN CHOOSE i \in DOMAIN keywords :
            /\ Contains(text, keywords[i])
            /\ \A j \in 1..(i - 1) : ~Contains(text, keywords[j])
    ELSE 0

\* the severity of a high-value flag found in the URL: every category high
url_keyword_severity_high(category) == "high"

\* the severity of a high-value flag found in the URL
url_keyword_severity(category) ==
    IF category \in {"admin", "backup", "upload"} THEN "high" ELSE "medium"

\* the severity of a high-value flag found in the title: as for the URL
title_keyword_severity_by_category(category) ==
    IF category \in {"admin", "backup", "upload"} THEN "high" ELSE "medium"

\* the severity of a high-value flag found in the title
title_keyword_severity(category) == "medium"

RECURSIVE UrlKeywordFlags(_, _)
\* one flag for each keyword group with a keyword in the URL
UrlKeywordFlags(groups, url_lower) ==
    IF groups = <<>> THEN <<>>
    ELSE LET category == Head(groups).category
             keywords == Head(groups).keywords
             k        == FirstKeyword(keywords, url_lower)
         IN  (IF k = 0 THEN <<>>
              ELSE <<[type |-> "high_value",
                      category |-> category,
                      keyword |-> keywords[k],
                      message |-> "High-value target: " \o category \o " ("
                                  \o keywords[k] \o " in URL)",
                      severity |-> url_keyword_severity(category)]>>)
             \o UrlKeywordFlags(Tail(groups), url_lower)

RECURSIVE TitleKeywordFlags(_, _)
\* one flag for each keyword group with a keyword in the title
TitleKeywordFlags(groups, title_lower) ==
    IF groups = <<>> THEN <<>>
    ELSE LET category == Head(groups).category
             keywords == Head(groups).keywords
             k        == FirstKeyword(keywords, title_lower)
         IN  (IF k = 0 THEN <<>>
              ELSE <<[type |-> "high_value",
                      category |-> category,
                      keyword |-> keywords[k],
                      message |-> "High-value target: " \o category \o " ("
                                  \o keywords[k] \o " in title)",
                      severity |-> title_keyword_severity(category)]>>)
             \o TitleKeywordFlags(Tail(groups), title_lower)

RECURSIVE OutdatedFlagsOf(_, _)
\* the flags of one technology: one for each product it names with one of
\* the product's vulnerable versions
OutdatedFlagsOf(tech, products) ==
    IF products = <<>> THEN <<>>
    ELSE LET p == Head(products)
         IN  (IF /\ Contains(Lower(tech), Lower(p.tech_name))
                 /\ \E i \in DOMAIN p.vulnerable_versions :
                       Contains(tech, p.vulnerable_versions[i])
              THEN <<[type |-> "outdated_tech",
                      technology |-> tech,
                      message |-> "Outdated/vulnerable technology: " \o tech,
                      severity |-> "high"]>>
              ELSE <<>>)
             \o OutdatedFlagsOf(tech, Tail(products))

RECURSIVE OutdatedTechFlags(_)
OutdatedTechFlags(technologies) ==
    IF technologies = <<>> THEN <<>>
    ELSE OutdatedFlagsOf(Head(technologies), outdated_tech)
         \o OutdatedTechFlags(Tail(technologies))

\* the status codes that are flagged: with 404
flagged_statuses_with_404 == {401, 403, 404, 500, 502, 503}

\* the status codes that are flagged
flagged_statuses == {401, 403, 500, 502, 503}

StatusFlags(status) ==
    IF status \in flagged_statuses
    THEN <<[type |-> "status",
            status_code |-> status,
            message |-> "Interesting status: " \o ToString(status) \o " - "
                        \o (IF status \in DOMAIN interesting_statuses
                            THEN interesting_statuses[status]
                            ELSE "Unknown"),
            severity |-> IF status = 404 THEN "low" ELSE "medium"]>>
    ELSE <<>>

SecurityFlags(headers, status) ==
    LET missing_headers ==
            SelectSeq(security_headers, LAMBDA h : h \notin DOMAIN headers)
    IN  IF missing_headers # <<>> /\ status = 200
        THEN <<[type |-> "security",
                message |-> "Missing security headers: "
                            \o JoinWith(", ", missing_headers),
                severity |-> "low"]>>
        ELSE <<>>

RedirectFlags(redirects) ==
    IF redirects # <<>>
    THEN <<[type |-> "redirect",
            message |-> "Redirects detected: " \o ToString(Len(redirects))
                        \o " hop(s)",
            severity |-> "low"]>>
    ELSE <<>>

DirectoryListingFlags(status, title_lower) ==
    IF status = 200 /\ Contains(title_lower, "index of")
    THEN <<[type |-> "directory_listing",
            message |-> "Possible directory listing",
            severity |-> "medium"]>>
    ELSE <<>>

DefaultPageFlags(title_lower) ==
    IF \E i \in DOMAIN default_titles : Contains(title_lower, default_titles[i])
    THEN <<[type |-> "default_page",
            message |-> "Default/test page detected",
            severity |-> "low"]>>
    ELSE <<>>

\* flags = self.flag_target(url, result)
flag_target(u, r) ==
    LET url_lower   == Lower(u)
        title_lower == Lower(r.title)
        status      == r.status_code
    IN  UrlKeywordFlags(high_value_keywords, url_lower)
        \o TitleKeywordFlags(high_value_keywords, title_lower)
        \o OutdatedTechFlags(r.technologies)
        \o StatusFlags(status)
        \o SecurityFlags(r.headers, status)
        \o RedirectFlags(r.redirects)
        \o DirectoryListingFlags(status, title_lower)
        \o DefaultPageFlags(title_lower)

(***************************************************************************)
(* flag_target called with a record of its caller's making.                *)
(***************************************************************************)
FlagUrls ==
    {"https://example.com", "https://example.com/admin",
     "https://example.com/login", "https://example.com/files/site.bak"}

FlagRecords ==
    [status_code : {NoStatusCode, 200, 301, 401, 403, 404, 500, 502, 503},
     title : {"", "Admin Dashboard", "Forbidden", "Index of /backup",
              "Welcome to nginx!", "File Upload"},
     technologies : {<<>>, <<"nginx/1.18.0">>,
                     <<"Apache/2.4.41", "PHP/7.4.3">>},
     flags : {<<>>},
     headers : {EmptyDict,
                [h \in {"Server"} |-> "nginx/1.18.0"],
                [h \in Range(security_headers) |-> "1"]},
     redirects : {[i \in 1..n |-> "http://example.com"] :
                     n \in 0..MaxRedirects}]

InitFlag ==
    /\ RunUnused /\ NotifyUnused /\ MultiUnused
    /\ url \in FlagUrls
    /\ result \in FlagRecords
    /\ response = Unused
    /\ classification = Unused
    /\ pc = "start"
    /\ MonitorUnused
    /\ TakeoverUnused

\* flags = self.monitor.flag_target(url, result)
FlagTarget ==
    /\ pc = "start"
    /\ result' = [result EXCEPT !.flags = flag_target(url, result)]
    /\ pc' = "flagged"
    /\ UNCHANGED <<runVars, notifyVars, multiVars,
                   url, classification, response, monitorVars, takeoverVars>>

NextFlag == FlagTarget

SpecFlag == InitFlag /\ [][NextFlag]_vars

(***************************************************************************)
(* Properties of flag_target.                                              *)
(***************************************************************************)
Flagged == pc = "flagged"

FlagsOfType(type) == {f \in Range(result.flags) : f.type = type}

SeverityByCategory(category) ==
    IF category \in {"admin", "backup", "upload"} THEN "high" ELSE "medium"

\* C14 as the specification states it: every high_value flag, its keyword
\* found in the URL or in the title, has the severity high for the
\* categories admin, backup and upload and medium for every other category.
C14_SeverityByCategory ==
    Flagged =>
        \A f \in FlagsOfType("high_value") :
            f.severity = SeverityByCategory(f.category)

\* C14: a high_value flag whose keyword was found in the URL has the
\* severity high for the categories admin, backup and upload and medium for
\* every other category; a high_value flag whose keyword was found in the
\* title has the severity medium, whatever its category.
C14_SeverityByCategoryInUrl ==
    Flagged =>
        \A f \in FlagsOfType("high_value") :
            /\ EndsWith(f.message, " in URL)") =>
                  f.severity = SeverityByCategory(f.category)
            /\ EndsWith(f.message, " in title)") => f.severity = "medium"
            /\ EndsWith(f.message, " in URL)")
               \/ EndsWith(f.message, " in title)")

\* the URL and the title both name the admin category
C14_Witness ==
    /\ Flagged
    /\ \E f, g \in FlagsOfType("high_value") :
          /\ f.category = "admin" /\ EndsWith(f.message, " in URL)")
          /\ g.category = "admin" /\ EndsWith(g.message, " in title)")

\* C15: there is a status flag if and only if the status code is one of
\* 401, 403, 500, 502, 503, and every status flag has the severity medium:
\* a record with the status 404, any other status or no status has no
\* status flag, and no status flag has the severity low.
C15_StatusFlag ==
    Flagged =>
        /\ FlagsOfType("status") # {}
              <=> result.status_code \in {401, 403, 500, 502, 503}
        /\ \A f \in FlagsOfType("status") :
              /\ f.severity = "medium"
              /\ f.status_code = result.status_code
        /\ result.status_code \in {404, NoStatusCode} =>
              FlagsOfType("status") = {}

C15_Witness ==
    /\ Flagged
    /\ result.status_code = 403
    /\ \E f \in FlagsOfType("status") :
          f.message = "Interesting status: 403 - Forbidden"

(***************************************************************************)
(* The takeover detector of SubdomainFinder (modules/subdomain_finder.py). *)
(***************************************************************************)
\* self.takeover_signatures, in its declaration order
takeover_signatures == <<
    [service |-> "github",
     cname |-> <<"github.io",
                "github.map.fastly.net">>,
     response |-> <<"There isn't a GitHub Pages site here",
                   "For root URLs">>],
    [service |-> "heroku",
     cname |-> <<"herokuapp.com",
                "herokussl.com">>,
     response |-> <<"no-such-app.html",
                   "No such app">>],
    [service |-> "shopify",
     cname |-> <<"myshopify.com">>,
     response |-> <<"Sorry, this shop is currently unavailable">>],
    [service |-> "tumblr",
     cname |-> <<"tumblr.com">>,
     response |-> <<"Whatever you were looking for doesn't currently exist">>],
    [service |-> "wordpress",
     cname |-> <<"wordpress.com">>,
     response |-> <<"Do you want to register">>],
    [service |-> "desk",
     cname |-> <<"desk.com">>,
     response |-> <<"Please try again or try Desk.com free for">>],
    [service |-> "fastly",
     cname |-> <<"fastly.net">>,
     response |-> <<"Fastly error: unknown domain">>],
    [service |-> "feedpress",
     cname |-> <<"redirect.feedpress.me">>,
     response |-> <<"The feed has not been found">>],
    [service |-> "ghost",
     cname |-> <<"ghost.io">>,
     response |-> <<"The thing you were looking for is no longer here">>],
    [service |-> "pantheon",
     cname |-> <<"pantheonsite.io">>,
     response |-> <<"404 error unknown site">>],
    [service |-> "surge",
     cname |-> <<"surge.sh">>,
     response |-> <<"project not found">>],
    [service |-> "bitbucket",
     cname |-> <<"bitbucket.io">>,
     response |-> <<"Repository not found">>],
    [service |-> "uservoice",
     cname |-> <<"uservoice.com">>,
     response |-> <<"This UserVoice subdomain is currently unavailable">>],
    [service |-> "statuspage",
     cname |-> <<"statuspage.io">>,
     response |-> <<"Status page doesn't exist",
                   "You are being">>],
    [service |-> "zendesk",
     cname |-> <<"zendesk.com">>,
     response |-> <<"Help Center Closed">>],
    [service |-> "vercel",
     cname |-> <<"vercel.app",
                "now.sh">>,
     response |-> <<"The deployment could not be found",
                   "DEPLOYMENT_NOT_FOUND">>],
    [service |-> "netlify",
     cname |-> <<"netlify.app",
                "netlify.com">>,
     response |-> <<"Not Found - Request ID">>],
    [service |-> "aws_s3",
     cname |-> <<"s3.amazonaws.com",
                "s3-website">>,
     response |-> <<"NoSuchBucket",
                   "The specified bucket does not exist">>],
    [service |-> "azure",
     cname |-> <<"azurewebsites.net",
                "cloudapp.azure.com",
                "cloudapp.net">>,
     response |-> <<"404 Web Site not found",
                   "Error 404">>],
    [service |-> "readme",
     cname |-> <<"readme.io">>,
     response |-> <<"Project doesnt exist... yet!">>],
    [service |-> "cargo",
     cname |-> <<"cargocollective.com">>,
     response |-> <<"404 Not Found">>],
    [service |-> "webflow",
     cname |-> <<"proxy.webflow.com",
                "proxy-ssl.webflow.com">>,
     response |-> <<"The page you are looking for doesn't exist or has been moved">>]
>>

\* the signatures of a service of the table
SignaturesOf(service) ==
    CHOOSE s \in Range(takeover_signatures) : s.service = service

\* the return value None of check_takeover_signature
NoTakeover == <<>>

\* the services whose CNAME patterns the CNAME matches, by table position
MatchingServices(cname_lower) ==
    {i \in DOMAIN takeover_signatures :
        \E j \in DOMAIN takeover_signatures[i].cname :
            Contains(cname_lower, takeover_signatures[i].cname[j])}

Least(S) == CHOOSE i \in S : \A j \in S : i <= j

\* check_takeover_signature with the loops exchanged: the table outside,
\* the CNAME records inside
check_takeover_signature_by_table(subdomain, cnames) ==
    LET matching(i) == {k \in DOMAIN cnames :
                          i \in MatchingServices(Lower(cnames[k]))}
        services    == {i \in DOMAIN takeover_signatures : matching(i) # {}}
    IN  IF services = {} THEN NoTakeover
        ELSE [subdomain |-> subdomain,
              cname |-> cnames[Least(matching(Least(services)))],
              service |-> takeover_signatures[Least(services)].service,
              confidence |-> "medium"]

RECURSIVE check_takeover_signature(_, _)
\* takeover = self.check_takeover_signature(subdomain, cname_records)
check_takeover_signature(subdomain, cnames) ==
    IF cnames = <<>> THEN NoTakeover
    ELSE LET cname    == Head(cnames)
             services == MatchingServices(Lower(cname))
         IN  IF services # {}
             THEN [subdomain |-> subdomain,
                   cname |-> cname,
                   service |-> takeover_signatures[Least(services)].service,
                   confidence |-> "medium"]
             ELSE check_takeover_signature(subdomain, Tail(cnames))

\* the protocols of the verification, http first
protocols_http_first == <<"http", "https">>

\* for protocol in ['https', 'http']
protocols == <<"https", "http">>

\* the first signature whatever the content
MatchedSignature_first(service, content) == 1

\* the position of the first fingerprint of the service that the content
\* holds, 0 when it holds none
MatchedSignature(service, content) ==
    LET signatures == SignaturesOf(service).response
        found == {i \in DOMAIN signatures :
                     Contains(Lower(content), Lower(signatures[i]))}
    IN  IF found = {} THEN 0 ELSE Least(found)

\* the candidate after the fingerprint `signature` matched the response to
\* the request of fetched_url
Promoted(takeover, fetched_url, status_code, signature) ==
    [subdomain |-> takeover.subdomain,
     cname |-> takeover.cname,
     service |-> takeover.service,
     confidence |-> "high",
     url |-> fetched_url,
     status_code |-> status_code,
     fingerprint |-> signature]

\* dns_results as check_dns_with_dnsx first makes it
EmptyDnsResults ==
    [alive |-> {}, dead |-> {}, cnames |-> EmptyDict, ips |-> EmptyDict,
     potential_takeovers |-> <<>>]

RECURSIVE PotentialTakeovers(_)
\* the candidates of the lines of dnsx that have CNAME records
PotentialTakeovers(lines) ==
    IF lines = <<>> THEN <<>>
    ELSE LET data     == Head(lines)
             takeover == IF data.cname # <<>>
                         THEN check_takeover_signature(data.host, data.cname)
                         ELSE NoTakeover
         IN  (IF takeover # NoTakeover THEN <<takeover>> ELSE <<>>)
             \o PotentialTakeovers(Tail(lines))

\* the records of the kind k of the last line of dnsx about host h
LastRecords(lines, h, k) ==
    lines[CHOOSE i \in DOMAIN lines :
             /\ lines[i].host = h
             /\ lines[i][k] # <<>>
             /\ \A j \in DOMAIN lines :
                   (lines[j].host = h /\ lines[j][k] # <<>>) => j <= i][k]

\* dns_results = self.check_dns_with_dnsx(self.subdomains)
check_dns_with_dnsx(subdomains, lines) ==
    LET with_a     == {lines[i].host : i \in {j \in DOMAIN lines : lines[j].a # <<>>}}
        with_cname == {lines[i].host : i \in {j \in DOMAIN lines : lines[j].cname # <<>>}}
    IN  [alive |-> with_a \cup with_cname,
         dead |-> subdomains \ (with_a \cup with_cname),
         cnames |-> [h \in with_cname |-> LastRecords(lines, h, "cname")],
         ips |-> [h \in with_a |-> LastRecords(lines, h, "a")],
         potential_takeovers |-> PotentialTakeovers(lines)]

(***************************************************************************)
(* One discovery run: what dnsx reports about the discovered subdomains,   *)
(* and what the candidates' hosts answer.                                  *)
(***************************************************************************)
\* one line about one host, with any records
OneLineOutputs ==
    LET CnameRecords ==
            {"old-app.herokuapp.com", "pages.github.io", "cdn.example.net",
             "site.github.map.fastly.net", "Shop.MyShopify.com"}
    IN  {<<[host |-> h, a |-> a, cname |-> c]>> :
            h \in Hosts,
            a \in {<<>>, <<"93.184.216.34">>},
            c \in UNION {[1..n -> CnameRecords] : n \in 0..MaxCnames}}

\* several lines about different hosts, each with one CNAME record
ManyLineOutputs ==
    LET SingleCnames ==
            {<<"old-app.herokuapp.com">>, <<"pages.github.io">>,
             <<"cdn.example.net">>}
        Lines == [host : Hosts, a : {<<>>}, cname : SingleCnames]
    IN  {l \in UNION {[1..n -> Lines] : n \in 2..MaxDnsLines} :
            \A i, j \in DOMAIN l : i # j => l[i].host # l[j].host}

DnsxOutputs == OneLineOutputs \cup ManyLineOutputs

\* what requests.get returns
TakeoverResponses ==
    {[status_code |-> 200, text |-> "<html>Welcome</html>"],
     [status_code |-> 404, text |-> "<h1>NO SUCH APP</h1>"],
     [status_code |-> 404,
      text |-> "There isn't a GitHub Pages site here. For root URLs ..."]}

\* requests.get raised
RequestRaised == [exception |-> "ConnectionError"]

InitTakeover ==
    /\ RunUnused /\ NotifyUnused /\ MultiUnused
    /\ dnsx_output \in DnsxOutputs
    /\ dns_results = EmptyDnsResults
    /\ verified_takeovers = <<>>
    /\ takeover_index = 0
    /\ protocol_index = 0
    /\ requested = <<>>
    /\ takeovers = <<>>
    /\ url = Unused
    /\ response = Unused
    /\ result = Unused
    /\ classification = Unused
    /\ pc = "start"
    /\ MonitorUnused

\* dns_results = self.check_dns_with_dnsx(self.subdomains)
CheckDnsWithDnsx ==
    /\ pc = "start"
    /\ dns_results' = check_dns_with_dnsx(Hosts, dnsx_output)
    /\ pc' = "dns_checked"
    /\ UNCHANGED <<runVars, notifyVars, multiVars,
                   dnsx_output, verified_takeovers, takeover_index,
                   protocol_index, requested, takeovers, url, response,
                   result, classification, monitorVars>>

\* run_all: no candidate, verify_takeover is not called
SkipVerify ==
    /\ pc = "dns_checked"
    /\ dns_results.potential_takeovers = <<>>
    /\ pc' = "verified"
    /\ UNCHANGED <<runVars, notifyVars, multiVars,
                   dnsx_output, dns_results, verified_takeovers,
                   takeover_index, protocol_index, requested, takeovers, url,
                   response, result, classification, monitorVars>>

\* run_all calls verify_takeover, which starts with the first candidate
BeginVerify ==
    /\ pc = "dns_checked"
    /\ dns_results.potential_takeovers # <<>>
    /\ verified_takeovers' = <<>>
    /\ takeover_index' = 1
    /\ protocol_index' = 1
    /\ pc' = "verifying"
    /\ UNCHANGED <<runVars, notifyVars, multiVars,
                   dnsx_output, dns_results, requested, takeovers, url,
                   response, result, classification, monitorVars>>

\* the candidate under verification
CurrentTakeover == dns_results.potential_takeovers[takeover_index]

\* url = f"{protocol}://{subdomain}"
CurrentUrl == protocols[protocol_index] \o "://" \o CurrentTakeover.subdomain

\* on to the next candidate, out of the loop after the last
NextTakeover ==
    /\ takeover_index' = takeover_index + 1
    /\ protocol_index' = 1
    /\ pc' = IF takeover_index = Len(dns_results.potential_takeovers)
             THEN "verified" ELSE "verifying"

\* on to the next protocol, to the next candidate after the last
NextProtocol ==
    IF protocol_index < Len(protocols)
    THEN /\ protocol_index' = protocol_index + 1
         /\ UNCHANGED <<takeover_index, pc>>
    ELSE NextTakeover

\* requests.get(url, ...) is called
Request ==
    /\ pc = "verifying"
    /\ url' = CurrentUrl
    /\ requested' = Append(requested, CurrentUrl)
    /\ UNCHANGED <<runVars, notifyVars, multiVars,
                   dnsx_output, takeovers, result, classification,
                   monitorVars>>

\* the request raises: except Exception: continue
FetchRaises ==
    /\ Request
    /\ response' = RequestRaised
    /\ NextProtocol
    /\ UNCHANGED <<dns_results, verified_takeovers>>

\* the response holds a fingerprint of the candidate's service
FetchMatches ==
    /\ Request
    /\ \E r \in TakeoverResponses :
          LET k == MatchedSignature(CurrentTakeover.service, r.text)
          IN  /\ k # 0
              /\ response' = r
              /\ dns_results' =
                    [dns_results EXCEPT
                        !.potential_takeovers[takeover_index] =
                            Promoted(@, CurrentUrl, r.status_code,
                                     SignaturesOf(@.service).response[k])]
              /\ verified_takeovers' =
                    Append(verified_takeovers,
                           dns_results'.potential_takeovers[takeover_index])
    /\ NextTakeover

\* the response holds no fingerprint of the candidate's service
FetchMisses ==
    /\ Request
    /\ \E r \in TakeoverResponses :
          /\ MatchedSignature(CurrentTakeover.service, r.text) = 0
          /\ response' = r
    /\ NextProtocol
    /\ UNCHANGED <<dns_results, verified_takeovers>>

\* run_all returns, and discover_subdomains passes on, 'takeovers'
ReturnTakeovers ==
    /\ pc = "verified"
    /\ takeovers' = verified_takeovers
    /\ pc' = "returned"
    /\ UNCHANGED <<runVars, notifyVars, multiVars,
                   dnsx_output, dns_results, verified_takeovers,
                   takeover_index, protocol_index, requested, url, response,
                   result, classification, monitorVars>>

\* collect_baseline stores the subdomains and the takeovers
CollectBaseline ==
    /\ pc = "returned"
    /\ new' = [new EXCEPT !.subdomains = [s \in Hosts |-> TRUE],
                          !.subdomain_takeovers = takeovers]
    /\ pc' = "collected"
    /\ UNCHANGED <<runVars, notifyVars, multiVars,
                   old, changes, priority, classifyVars, probeVars,
                   takeoverVars>>

NextTakeoverRun ==
    \/ CheckDnsWithDnsx
    \/ SkipVerify
    \/ BeginVerify
    \/ FetchRaises
    \/ FetchMatches
    \/ FetchMisses
    \/ ReturnTakeovers
    \/ CollectBaseline

SpecTakeover == InitTakeover /\ [][NextTakeoverRun]_vars

(***************************************************************************)
(* Properties of the takeover detector.                                    *)
(***************************************************************************)
\* the services of the table, by position, that a record of cnames matches
ServicesMatchedBy(cnames) ==
    UNION {MatchingServices(Lower(cnames[k])) : k \in DOMAIN cnames}

\* the candidates of the DNS check about the host h
CandidatesOf(h) ==
    {t \in Range(dns_results.potential_takeovers) : t.subdomain = h}

DnsChecked == pc = "dns_checked"

\* C16 as the specification states it: no candidate when no CNAME record
\* holds a CNAME pattern of the table; otherwise one candidate of the
\* confidence medium for the first service of the table among the services
\* that any of the CNAME records matches, whatever the order of the records.
C16_FirstServiceOfTable ==
    DnsChecked =>
        \A i \in DOMAIN dnsx_output :
            LET data     == dnsx_output[i]
                services == ServicesMatchedBy(data.cname)
            IN  IF services = {} THEN CandidatesOf(data.host) = {}
                ELSE \E t \in CandidatesOf(data.host) :
                        /\ CandidatesOf(data.host) = {t}
                        /\ t.confidence = "medium"
                        /\ t.service
                              = takeover_signatures[Least(services)].service

\* C16: no candidate when no CNAME record holds a CNAME pattern of the
\* table; otherwise one candidate of the confidence medium, for the first
\* record, in the order of the CNAME list, that matches any service, and
\* for the first service of the table among those that this record matches.
C16_FirstServiceOfFirstCname ==
    DnsChecked =>
        \A i \in DOMAIN dnsx_output :
            LET data     == dnsx_output[i]
                matching == {k \in DOMAIN data.cname :
                                MatchingServices(Lower(data.cname[k])) # {}}
            IN  IF matching = {} THEN CandidatesOf(data.host) = {}
                ELSE \E t \in CandidatesOf(data.host) :
                        /\ CandidatesOf(data.host) = {t}
                        /\ t.confidence = "medium"
                        /\ t.cname = data.cname[Least(matching)]
                        /\ t.service
                              = takeover_signatures[
                                    Least(MatchingServices(Lower(t.cname)))
                                ].service

\* a heroku record before a github record: the candidate is for heroku,
\* which the table declares after github
C16_Witness ==
    /\ DnsChecked
    /\ \E i \in DOMAIN dnsx_output :
          /\ dnsx_output[i].cname = <<"old-app.herokuapp.com", "pages.github.io">>
          /\ \E t \in CandidatesOf(dnsx_output[i].host) : t.service = "heroku"

\* the fingerprints of the service that the text holds
FingerprintsIn(service, text) ==
    {s \in Range(SignaturesOf(service).response) :
        Contains(Lower(text), Lower(s))}

\* the step is a request of verify_takeover
IsRequest == requested' # requested

\* the response of the step holds a fingerprint of the service
ResponseMatches(service) ==
    /\ "text" \in DOMAIN response'
    /\ FingerprintsIn(service, response'.text) # {}

\* C17: the verification requests https://subdomain first and
\* http://subdomain second; at the first of the two whose body holds a
\* fingerprint of the candidate's service the candidate gets the confidence
\* high, the URL of this request, the status code of this response and the
\* fingerprint that matched, and the other protocol is not requested.
C17_HttpsThenHttp ==
    [][IsRequest =>
          LET t  == dns_results.potential_takeovers[takeover_index]
              t1 == dns_results'.potential_takeovers[takeover_index]
              https == "https://" \o t.subdomain
              http  == "http://" \o t.subdomain
          IN  /\ requested' = Append(requested, url')
              /\ \/ url' = https
                 \/ /\ url' = http
                    /\ requested # <<>>
                    /\ Last(requested) = https
                    /\ ~("text" \in DOMAIN response
                         /\ FingerprintsIn(t.service, response.text) # {})
              /\ ResponseMatches(t.service) =>
                    /\ t1.confidence = "high"
                    /\ t1.url = url'
                    /\ t1.status_code = response'.status_code
                    /\ t1.fingerprint \in FingerprintsIn(t.service, response'.text)
                    /\ takeover_index' = takeover_index + 1
                    /\ url' = https => http \notin Range(requested')
      ]_vars

\* a candidate promoted by the second request, the one over http
C17_Witness ==
    /\ pc = "collected"
    /\ \E t \in Range(dns_results.potential_takeovers) :
          /\ t.confidence = "high"
          /\ t.url = "http://" \o t.subdomain
          /\ "https://" \o t.subdomain \in Range(requested)

\* C18 as the specification states it: a candidate that no response
\* promoted keeps the confidence medium and is in the list of takeovers that
\* the run returns and that the baseline stores.
C18_UnverifiedKept ==
    pc = "collected" =>
        \A t \in Range(dns_results.potential_takeovers) :
            t.confidence # "high" =>
                /\ t.confidence = "medium"
                /\ t \in Range(takeovers)
                /\ t \in Range(new.subdomain_takeovers)

\* C19: a candidate has the confidence medium when the CNAME matching makes
\* it; its confidence changes only from medium to high, and only in a step
\* whose response holds a fingerprint of its service; a candidate of the
\* confidence high keeps it through every later step of the run.
C19_ConfidenceMonotonic ==
    [][/\ (pc = "start" /\ pc' = "dns_checked") =>
              \A t \in Range(dns_results'.potential_takeovers) :
                  t.confidence = "medium"
       /\ pc # "start" =>
              /\ Len(dns_results'.potential_takeovers)
                    = Len(dns_results.potential_takeovers)
              /\ \A i \in DOMAIN dns_results.potential_takeovers :
                    LET t  == dns_results.potential_takeovers[i]
                        t1 == dns_results'.potential_takeovers[i]
                    IN  /\ t1.subdomain = t.subdomain
                        /\ t1.service = t.service
                        /\ t.confidence = "high" => t1.confidence = "high"
                        /\ t1.confidence # t.confidence =>
                              /\ t.confidence = "medium"
                              /\ t1.confidence = "high"
                              /\ IsRequest
                              /\ i = takeover_index
                              /\ ResponseMatches(t.service)
      ]_vars

\* a candidate of the confidence high, and after its promotion a request
\* for another candidate that raised
C19_Witness ==
    /\ pc = "verified"
    /\ Len(dns_results.potential_takeovers) = 2
    /\ dns_results.potential_takeovers[1].confidence = "high"
    /\ dns_results.potential_takeovers[2].confidence = "medium"
    /\ "exception" \in DOMAIN response
(***************************************************************************)
(* HTTPMonitor.probe_url and detect_technologies                           *)
(* (modules/http_monitor.py).                                              *)
(***************************************************************************)
Digits == "0123456789"

IsDigit(c) == Contains(Digits, c)

RECURSIVE DigitsEnd(_, _)
\* \d+ matched greedily at position i of s: the position of its last digit,
\* i - 1 when s has no digit at i
DigitsEnd(s, i) ==
    IF i <= Len(s) /\ IsDigit(SubSeq(s, i, i))
    THEN DigitsEnd(s, i + 1)
    ELSE i - 1

\* \.\d+ matched at position i of s: the position of its last digit, 0 when
\* it does not match
DotDigitsEnd(s, i) ==
    IF i <= Len(s) /\ SubSeq(s, i, i) = "." /\ DigitsEnd(s, i + 1) > i
    THEN DigitsEnd(s, i + 1)
    ELSE 0

\* \d+\.\d+\.\d+ matched at position i of s: the position of its last
\* character, 0 when it does not match
ThreePartVersionEnd(s, i) ==
    LET a == DigitsEnd(s, i)
        b == IF a >= i THEN DotDigitsEnd(s, a + 1) ELSE 0
    IN  IF b = 0 THEN 0 ELSE DotDigitsEnd(s, b + 1)

\* \d+\.\d+(?:\.\d+)? matched at position i of s
VersionEnd(s, i) ==
    LET a == DigitsEnd(s, i)
        b == IF a >= i THEN DotDigitsEnd(s, a + 1) ELSE 0
        c == IF b = 0 THEN 0 ELSE DotDigitsEnd(s, b + 1)
    IN  IF c # 0 THEN c ELSE b

RECURSIVE SeparatorsEnd(_, _)
\* [/\s]+ matched greedily at position i of s
SeparatorsEnd(s, i) ==
    IF i <= Len(s) /\ SubSeq(s, i, i) \in {"/", " "}
    THEN SeparatorsEnd(s, i + 1)
    ELSE i - 1

\* re.search(name + r'[/-]?(\d+\.\d+\.\d+)', content): group 1 of the
\* leftmost match, "" when there is none
LibraryVersion(name, content) ==
    LET n == Len(name)
        VersionAt(i) == IF i <= Len(content)
                           /\ SubSeq(content, i, i) \in {"/", "-"}
                           /\ ThreePartVersionEnd(content, i + 1) # 0
                        THEN i + 1
                        ELSE i
        Matches(i) == /\ SubSeq(content, i, i + n - 1) = name
                      /\ ThreePartVersionEnd(content, VersionAt(i + n)) # 0
        starts == {i \in 1..(Len(content) - n + 1) : Matches(i)}
    IN  IF starts = {} THEN ""
        ELSE LET i == CHOOSE k \in starts : \A j \in starts : k <= j
                 v == VersionAt(i + n)
             IN  SubSeq(content, v, ThreePartVersionEnd(content, v))

\* re.search(r'wordpress[/\s]+(\d+\.\d+(?:\.\d+)?)', content): group 1 of the
\* leftmost match, "" when there is none
WordPressVersion(content) ==
    LET n == Len("wordpress")
        Matches(i) ==
            /\ SubSeq(content, i, i + n - 1) = "wordpress"
            /\ SeparatorsEnd(content, i + n) >= i + n
            /\ \E e \in (i + n)..SeparatorsEnd(content, i + n) :
                   VersionEnd(content, e + 1) # 0
        starts == {i \in 1..(Len(content) - n + 1) : Matches(i)}
    IN  IF starts = {} THEN ""
        ELSE LET i == CHOOSE k \in starts : \A j \in starts : k <= j
                 e == CHOOSE k \in (i + n)..SeparatorsEnd(content, i + n) :
                         /\ VersionEnd(content, k + 1) # 0
                         /\ \A j \in (k + 1)..SeparatorsEnd(content, i + n) :
                                VersionEnd(content, j + 1) = 0
             IN  SubSeq(content, e + 1, VersionEnd(content, e + 1))

headers_to_check == <<
    [header |-> "Server", tech_name |-> ""],
    [header |-> "X-Powered-By", tech_name |-> ""],
    [header |-> "X-AspNet-Version", tech_name |-> "ASP.NET"],
    [header |-> "X-AspNetMvc-Version", tech_name |-> "ASP.NET MVC"],
    [header |-> "X-Generator", tech_name |-> ""],
    [header |-> "X-Drupal-Cache", tech_name |-> "Drupal"],
    [header |-> "X-Drupal-Dynamic-Cache", tech_name |-> "Drupal"] >>

\* response.headers.get(header, '')
HeaderOf(headers, header) ==
    IF header \in DOMAIN headers THEN headers[header] ELSE ""

RECURSIVE HeaderTechnologies(_, _)
HeaderTechnologies(checks, headers) ==
    IF checks = <<>> THEN <<>>
    ELSE LET value == HeaderOf(headers, Head(checks).header)
             tech_name == Head(checks).tech_name
         IN  (IF value = "" THEN <<>>
              ELSE IF tech_name # "" THEN <<tech_name \o " " \o value>>
              ELSE <<value>>)
             \o HeaderTechnologies(Tail(checks), headers)

ContentTechnologies(content) ==
    (IF Contains(content, "wp-content") \/ Contains(content, "wp-includes")
     THEN IF WordPressVersion(content) # ""
          THEN <<"WordPress " \o WordPressVersion(content)>>
          ELSE <<"WordPress">>
     ELSE <<>>)
    \o (IF LibraryVersion("jquery", content) # ""
        THEN <<"jQuery " \o LibraryVersion("jquery", content)>> ELSE <<>>)
    \o (IF Contains(content, "react") /\ Contains(content, "__react")
        THEN <<"React">> ELSE <<>>)
    \o (IF Contains(content, "vue.js") \/ Contains(content, "vuejs")
        THEN <<"Vue.js">> ELSE <<>>)
    \o (IF Contains(content, "ng-app") \/ Contains(content, "angular")
        THEN <<"Angular">> ELSE <<>>)
    \o (IF LibraryVersion("bootstrap", content) # ""
        THEN <<"Bootstrap " \o LibraryVersion("bootstrap", content)>>
        ELSE <<>>)
    \o (IF Contains(content, "drupal") THEN <<"Drupal">> ELSE <<>>)
    \o (IF Contains(content, "joomla") THEN <<"Joomla">> ELSE <<>>)

RECURSIVE Distinct(_)
\* list(set(technologies)): each technology once; the set leaves the order
\* open, the model keeps the order of the first appending
Distinct(s) ==
    IF s = <<>> THEN <<>>
    ELSE LET rest == Distinct(SubSeq(s, 1, Len(s) - 1))
         IN  IF Last(s) \in Range(rest) THEN rest ELSE Append(rest, Last(s))

\* self.detect_technologies(response)
detect_technologies(r) ==
    Distinct(HeaderTechnologies(headers_to_check, r.headers)
             \o ContentTechnologies(Lower(r.content)))

RECURSIVE Strip(_)
\* s.strip()
Strip(s) ==
    IF s = "" THEN s
    ELSE IF Head(s) = " " THEN Strip(Tail(s))
    ELSE IF SubSeq(s, Len(s), Len(s)) = " "
         THEN Strip(SubSeq(s, 1, Len(s) - 1))
    ELSE s

\* BeautifulSoup(response.content, 'html.parser') raises: html.parser
\* rejects a marked section of an unknown keyword
ParserRejects(content) == Contains(content, "<![x[")

ParserMessage == "unknown status keyword 'x' in marked section"

\* soup.title
HasTitle(content) == Contains(content, "<title>")

\* soup.title.string: the text of the first title element, "" for None
TitleString(content) ==
    LET from == Find(content, "<title>") + Len("<title>")
        rest == SubSeq(content, from, Len(content))
        to   == Find(rest, "<")
    IN  IF to = 0 THEN rest ELSE SubSeq(rest, 1, to - 1)

IsHtml(r) == Contains(HeaderOf(r.headers, "Content-Type"), "text/html")

\* hashlib.sha256(response.content).hexdigest(): one digest for each content
sha256(content) == "sha256(" \o content \o ")"

\* the record probe_url starts from
InitialResult(u) ==
    [url |-> u,
     status_code |-> NoStatusCode,
     body_length |-> 0,
     title |-> "",
     technologies |-> <<>>,
     headers |-> EmptyDict,
     server |-> "",
     redirects |-> <<>>,
     content_hash |-> "",
     flags |-> <<>>,
     reachable |-> FALSE]

\* the record once the response is taken in, before the title is read
ResponseRecorded(res, r) ==
    [res EXCEPT !.status_code = r.status_code,
                !.body_length = Len(r.content),
                !.headers = r.headers,
                !.server = HeaderOf(r.headers, "Server"),
                !.reachable = TRUE,
                !.redirects = IF r.history # <<>> THEN r.history ELSE @,
                !.content_hash = sha256(r.content)]

\* the record with the title of an HTML response
TitleExtracted(res, r) ==
    IF IsHtml(r) /\ HasTitle(r.content)
    THEN [res EXCEPT !.title = Strip(TitleString(r.content))]
    ELSE res

TechnologiesDetected(res, r) ==
    [res EXCEPT !.technologies = detect_technologies(r)]

TargetFlagged(res) == [res EXCEPT !.flags = flag_target(res.url, res)]

\* result['flags'].append({'type': 'error', 'message': message})
ErrorFlagged(res, message) ==
    [res EXCEPT !.flags = Append(@, [type |-> "error", message |-> message])]

\* what session.get raises
Raised(exception, message) == [exception |-> exception, message |-> message]

\* result = self.probe_url(url): outcome is the response of session.get or
\* what it raised
probe_url(u, outcome) ==
    LET res == InitialResult(u)
    IN  IF "exception" \in DOMAIN outcome
        THEN ErrorFlagged(res, IF outcome.exception = "Timeout"
                                 THEN "Timeout"
                               ELSE IF outcome.exception = "ConnectionError"
                                 THEN "Connection Error"
                               ELSE outcome.message)
        ELSE LET recorded == ResponseRecorded(res, outcome)
             IN  IF IsHtml(outcome) /\ ParserRejects(outcome.content)
                 THEN ErrorFlagged(recorded, ParserMessage)
                 ELSE TargetFlagged(
                          TechnologiesDetected(
                              TitleExtracted(recorded, outcome), outcome))

(***************************************************************************)
(* probe_url called on one URL, the request ending in each of its ways.    *)
(***************************************************************************)
ProbeUrls ==
    {"https://example.com", "https://example.com/admin",
     "https://api.example.com", "http://example.com/login"}

ProbeResponses ==
    LET Html(server) == [h \in {"Content-Type", "Server"} |->
                            IF h = "Server" THEN server
                            ELSE "text/html; charset=utf-8"]
        pages == {[headers |-> Html("nginx/1.18.0"),
                   content |-> "<html><title> Admin Panel </title></html>"],
                  [headers |-> Html("Apache/2.4.41"),
                   content |-> "<html><![x[ y ]]><title>t</title></html>"],
                  [headers |-> [h \in {"Content-Type", "X-Powered-By"} |->
                                   IF h = "X-Powered-By" THEN "PHP/7.4.3"
                                   ELSE "text/html"],
                   content |-> "<title>Blog</title><script src=/wp-content/"
                               \o "jquery-3.4.1.js></script>WordPress 5.8"],
                  [headers |-> [h \in {"Content-Type"} |->
                                   "application/json"],
                   content |-> "{}"]}
    IN  {[status_code |-> s, headers |-> p.headers, content |-> p.content,
          history |-> [i \in 1..n |-> "http://example.com"]] :
            s \in {200, 403, 404, 500}, p \in pages, n \in 0..MaxRedirects}

\* the messages of the other exceptions of a request
OtherMessages == {"Exceeded 30 redirects.", "Invalid URL"}

InitProbe ==
    /\ RunUnused /\ NotifyUnused /\ MultiUnused
    /\ url \in ProbeUrls
    /\ result = InitialResult(url)
    /\ response = Unused
    /\ classification = Unused
    /\ pc = "start"
    /\ MonitorUnused
    /\ TakeoverUnused

\* the request ends as outcome and probe_url returns
Returns(outcome) ==
    /\ pc = "start"
    /\ response' = outcome
    /\ result' = probe_url(url, outcome)
    /\ pc' = "returned"
    /\ UNCHANGED <<runVars, notifyVars, multiVars,
                   url, classification, monitorVars, takeoverVars>>

\* except requests.exceptions.Timeout
ProbeTimeout ==
    /\ pc = "start"
    /\ Returns(Raised("Timeout", ""))

\* except requests.exceptions.ConnectionError
ProbeConnectionError ==
    /\ pc = "start"
    /\ Returns(Raised("ConnectionError", ""))

\* except Exception as e, raised by the request
ProbeRequestError ==
    \E m \in OtherMessages :
        /\ pc = "start"
        /\ Returns(Raised("Exception", m))

\* except Exception as e, raised while the response is read
ProbeParserError ==
    \E r \in ProbeResponses :
        /\ IsHtml(r) /\ ParserRejects(r.content)
        /\ Returns(r)

\* no exception
ProbeCompletes ==
    \E r \in ProbeResponses :
        /\ ~(IsHtml(r) /\ ParserRejects(r.content))
        /\ Returns(r)

NextProbe ==
    \/ ProbeTimeout
    \/ ProbeConnectionError
    \/ ProbeRequestError
    \/ ProbeParserError
    \/ ProbeCompletes

SpecProbe == InitProbe /\ [][NextProbe]_vars

(***************************************************************************)
(* Properties of probe_url.                                                *)
(***************************************************************************)
ProbeReturned == pc = "returned"

\* an exception was raised inside probe_url
ProbeFailed ==
    \/ "exception" \in DOMAIN response
    \/ IsHtml(response) /\ ParserRejects(response.content)

ErrorFlags == {i \in DOMAIN result.flags : result.flags[i].type = "error"}

\* C20: probe_url always returns a record; when an exception was raised, on
\* a timeout, a connection error or any other exception, the record has
\* reachable = false and exactly one flag of kind error; when it was raised
\* before a response, the record also has no status code, body length 0 and
\* an empty title.
C20_UnreachableOnError ==
    ProbeReturned /\ ProbeFailed =>
        /\ result.reachable = FALSE
        /\ Cardinality(ErrorFlags) = 1
        /\ "exception" \in DOMAIN response =>
               /\ result.status_code = NoStatusCode
               /\ result.body_length = 0
               /\ result.title = ""
(***************************************************************************)
(* BBMonitor.run_monitoring (monitor.py): the loop over the targets, with  *)
(* collect_baseline, probe_http, load_baseline, save_baseline and          *)
(* save_changes.  print_changes only prints and is left out.               *)
(*   baseline_files  the baseline directory: for each target its baseline  *)
(*                   file, NoFile when there is none                       *)
(*   diff_files      the diff directory: for each target the file of this  *)
(*                   run, NoFile when there is none                        *)
(*   all_changes     the dictionary of the changes generate_report gets    *)
(*   target_index    the position of the loop in the targets               *)
(*   report          the targets of the report, NoFile when none is made   *)
(*   old, new        old_baseline and the baseline collect_baseline builds *)
(*   results         results_dict: what probe_multiple returned last       *)
(***************************************************************************)
targets == <<"example.com", "example.org">>

NoFile == <<>>

\* load_baseline's None
NoBaseline == <<>>

\* self._json_safe(data) and json.dump: the keys of a dict become strings,
\* sets and tuples become lists.  The keys of a baseline are strings.
_json_safe(baseline) ==
    [subdomains |-> [k \in DOMAIN baseline.subdomains |-> baseline.subdomains[k]],
     subdomain_takeovers |-> baseline.subdomain_takeovers,
     endpoints |-> [k \in DOMAIN baseline.endpoints |-> baseline.endpoints[k]],
     javascript_files |->
        [k \in DOMAIN baseline.javascript_files |-> baseline.javascript_files[k]]]

\* load_baseline(domain): None without a file, json.load(f) with one
load_baseline(files, domain) ==
    IF files[domain] = NoFile THEN NoBaseline ELSE files[domain]

\* HTTPMonitor.probe_multiple's result: every URL with the result of its
\* own probe
probe_multiple(urls, outcomes) == [u \in urls |-> probe_url(u, outcomes[u])]

\* probe_http's entry of a result; the technologies are kept as the set the
\* differ makes of them
EndpointData(data) ==
    [status_code |-> data.status_code,
     title |-> data.title,
     content_length |-> data.body_length,
     body_length |-> data.body_length,
     technologies |-> Range(data.technologies),
     headers |-> data.headers,
     server |-> data.server,
     content_hash |-> data.content_hash,
     flags |-> data.flags,
     redirects |-> data.redirects]

\* Mutant: every result is kept, reachable or not.
kept_results_all(results_dict) == DOMAIN results_dict

\* if data.get('reachable')
kept_results(results_dict) ==
    {u \in DOMAIN results_dict : results_dict[u].reachable}

\* probe_http(subdomains), what the requests come to being outcomes
probe_http(subdomains, outcomes) ==
    LET urls == {Url(subdomain) : subdomain \in subdomains}
        results_dict == probe_multiple(urls, outcomes)
    IN  [u \in kept_results(results_dict) |-> EndpointData(results_dict[u])]

\* Mutant: the first-run path collects a baseline and does not save it.
first_run_steps_unsaved ==
    <<"discover_subdomains", "probe_http", "crawl_endpoints">>

\* the first-run path: collect_baseline, save_baseline, continue
first_run_steps ==
    <<"discover_subdomains", "probe_http", "crawl_endpoints", "save_baseline">>

\* Mutant: the baseline is updated before it is compared.
monitoring_steps_update_first ==
    <<"discover_subdomains", "probe_http", "crawl_endpoints", "save_baseline",
      "compare_baselines", "save_changes", "record_changes">>

\* Mutant: the changes are not saved.
monitoring_steps_unsaved ==
    <<"discover_subdomains", "probe_http", "crawl_endpoints",
      "compare_baselines", "save_baseline", "record_changes">>

\* the path of a target with a baseline: collect_baseline (its three
\* stages), compare_baselines, save_changes, save_baseline,
\* all_changes[domain] = changes
monitoring_steps ==
    <<"discover_subdomains", "probe_http", "crawl_endpoints",
      "compare_baselines", "save_changes", "save_baseline", "record_changes">>

\* if not old_baseline
FirstRun(old_baseline) == old_baseline = NoBaseline

StepsOf(old_baseline) ==
    IF FirstRun(old_baseline) THEN first_run_steps ELSE monitoring_steps

domain == targets[target_index]

\* the step after `step` on the path of the target at hand; after the last
\* one the loop goes on
After(step) ==
    LET steps == StepsOf(old)
        i == CHOOSE k \in DOMAIN steps : steps[k] = step
    IN  IF i < Len(steps) THEN steps[i + 1] ELSE "next_target"

(***************************************************************************)
(* What a run finds: the subdomains and verified takeovers of a target,    *)
(* what the request of each URL comes to, the JavaScript files crawled.    *)
(***************************************************************************)
DiscoverResults ==
    {[subdomains |-> {HostSeq[1]}, takeovers |-> <<>>],
     [subdomains |-> {HostSeq[1], HostSeq[2]}, takeovers |-> <<>>],
     [subdomains |-> {HostSeq[1], HostSeq[2]},
      takeovers |-> <<CandidateHigh(HostSeq[2])>>]}

PageOf(status_code, content) ==
    [status_code |-> status_code,
     headers |-> [h \in {"Content-Type", "Server"} |->
                     IF h = "Server" THEN "Apache" ELSE "text/html"],
     content |-> content,
     history |-> <<>>]

PageOk == PageOf(200, "<title>Admin Panel</title>")
PageForbidden == PageOf(403, "<title>Forbidden</title>")
PageRejected == PageOf(200, "<![x[ y ]]><title>Admin Panel</title>")

RunOutcomes == {PageOk, PageForbidden, PageRejected, Raised("Timeout", "")}

\* the outcomes of the URLs of a run: any for the first URL, a page or a
\* timeout for the others
OutcomeMaps(subdomains) ==
    {m \in [{Url(sub) : sub \in subdomains} -> RunOutcomes] :
        \A u \in DOMAIN m :
            u # UrlSeq[1] => m[u] \in {PageOk, Raised("Timeout", "")}}

CrawledJs(endpoints) ==
    IF DOMAIN endpoints = {} THEN {EmptyDict}
    ELSE {FixedJs,
          JsSeq[1] :> [hash |-> "h2", endpoints |-> Range(JsEndpointSeq)]}

\* baseline = self.collect_baseline(domain), the run finding `found`
collect_baseline(found, outcomes, js) ==
    [subdomains |-> [sub \in found.subdomains |-> TRUE],
     subdomain_takeovers |-> found.takeovers,
     endpoints |-> probe_http(found.subdomains, outcomes),
     javascript_files |-> js]

\* the baselines an earlier run has saved
EarlierBaselines ==
    LET one == [subdomains |-> {HostSeq[1]}, takeovers |-> <<>>]
        two == [subdomains |-> {HostSeq[1], HostSeq[2]}, takeovers |-> <<>>]
    IN  {_json_safe(collect_baseline(one, [u \in {UrlSeq[1]} |-> PageOk],
                                     EmptyDict)),
         _json_safe(collect_baseline(two,
                                     [u \in {UrlSeq[1], UrlSeq[2]} |-> PageOk],
                                     FixedJs))}

InitRun ==
    /\ baseline_files \in [Range(targets) -> {NoFile} \cup EarlierBaselines]
    /\ diff_files = [t \in Range(targets) |-> NoFile]
    /\ all_changes = EmptyDict
    /\ target_index = 1
    /\ report = NoFile
    /\ old = NoBaseline
    /\ new = EmptyBaseline
    /\ changes = EmptyChanges
    /\ priority = NoPriority
    /\ pc = "load_baseline"
    /\ ClassifyUnused /\ ProbeUnused /\ TakeoverUnused
    /\ NotifyUnused
    /\ futures = Unused
    /\ results = EmptyDict

runOthers ==
    <<priority, classifyVars, probeVars, takeoverVars, notifyVars, futures>>

\* old_baseline = self.load_baseline(domain)
LoadBaseline ==
    /\ pc = "load_baseline"
    /\ old' = load_baseline(baseline_files, domain)
    /\ pc' = StepsOf(old')[1]
    /\ UNCHANGED <<new, changes, runVars, results, runOthers>>

\* collect_baseline, 1: discover_subdomains
DiscoverSubdomains ==
    /\ pc = "discover_subdomains"
    /\ \E found \in DiscoverResults :
          new' = [EmptyBaseline EXCEPT
                     !.subdomains = [sub \in found.subdomains |-> TRUE],
                     !.subdomain_takeovers = found.takeovers]
    /\ pc' = After(pc)
    /\ UNCHANGED <<old, changes, runVars, results, runOthers>>

\* collect_baseline, 2: baseline['endpoints'] = self.probe_http(subdomains)
ProbeHttp ==
    /\ pc = "probe_http"
    /\ \E outcomes \in OutcomeMaps(DOMAIN new.subdomains) :
          /\ results' = probe_multiple({Url(sub) : sub \in DOMAIN new.subdomains},
                                       outcomes)
          /\ new' = [new EXCEPT
                        !.endpoints = probe_http(DOMAIN new.subdomains, outcomes)]
    /\ pc' = After(pc)
    /\ UNCHANGED <<old, changes, runVars, runOthers>>

\* collect_baseline, 3: the endpoints are crawled for JavaScript files
CrawlEndpoints ==
    /\ pc = "crawl_endpoints"
    /\ \E js \in CrawledJs(new.endpoints) :
          new' = [new EXCEPT !.javascript_files = js]
    /\ pc' = After(pc)
    /\ UNCHANGED <<old, changes, runVars, results, runOthers>>

\* changes = self.compare_baselines(domain, old_baseline, new_baseline)
RunCompareBaselines ==
    /\ pc = "compare_baselines"
    /\ changes' = compare_baselines(old, new)
    /\ pc' = After(pc)
    /\ UNCHANGED <<old, new, runVars, results, runOthers>>

\* self.save_changes(domain, changes)
SaveChanges ==
    /\ pc = "save_changes"
    /\ diff_files' = [diff_files EXCEPT ![domain] = changes]
    /\ pc' = After(pc)
    /\ UNCHANGED <<old, new, changes, baseline_files, all_changes,
                   target_index, report, results, runOthers>>

\* self.save_baseline(domain, baseline)
SaveBaseline ==
    /\ pc = "save_baseline"
    /\ baseline_files' = [baseline_files EXCEPT ![domain] = _json_safe(new)]
    /\ pc' = After(pc)
    /\ UNCHANGED <<old, new, changes, diff_files, all_changes, target_index,
                   report, results, runOthers>>

\* all_changes[domain] = changes
RecordChanges ==
    /\ pc = "record_changes"
    /\ all_changes' = [d \in DOMAIN all_changes \cup {domain} |->
                          IF d = domain THEN changes ELSE all_changes[d]]
    /\ pc' = After(pc)
    /\ UNCHANGED <<old, new, changes, baseline_files, diff_files,
                   target_index, report, results, runOthers>>

\* for domain in targets: the next target, out of the loop after the last
NextTarget ==
    /\ pc = "next_target"
    /\ target_index' = target_index + 1
    /\ pc' = IF target_index < Len(targets) THEN "load_baseline"
             ELSE "generate_report"
    /\ UNCHANGED <<old, new, changes, baseline_files, diff_files,
                   all_changes, report, results, runOthers>>

\* if all_changes: self.generate_report(all_changes)
GenerateReport ==
    /\ pc = "generate_report"
    /\ report' = IF DOMAIN all_changes # {}
                 THEN ListOf(targets, DOMAIN all_changes) ELSE NoFile
    /\ pc' = "done"
    /\ UNCHANGED <<old, new, changes, baseline_files, diff_files,
                   all_changes, target_index, results, runOthers>>

NextRun ==
    \/ LoadBaseline
    \/ DiscoverSubdomains
    \/ ProbeHttp
    \/ CrawlEndpoints
    \/ RunCompareBaselines
    \/ SaveChanges
    \/ SaveBaseline
    \/ RecordChanges
    \/ NextTarget
    \/ GenerateReport

SpecRun == InitRun /\ [][NextRun]_vars

(***************************************************************************)
(* Properties of run_monitoring.                                           *)
(***************************************************************************)
RunDone == pc = "done"

\* the target at hand is past its last step
TargetDone == pc = "next_target"

\* C21: a target without a baseline file takes the first-run path: its
\* baseline is collected and saved, no diff is computed, no change set is
\* saved or reported for it, and the run goes on to the end with the other
\* targets.
C21_FirstRunPath ==
    /\ [](TargetDone /\ FirstRun(old) =>
            /\ baseline_files[domain] = _json_safe(new)
            /\ diff_files[domain] = NoFile
            /\ domain \notin DOMAIN all_changes)
    /\ [][FirstRun(old') => UNCHANGED <<changes, diff_files, all_changes>>]_vars
    /\ [][TargetDone /\ FirstRun(old) =>
            /\ target_index' = target_index + 1
            /\ pc' \in {"load_baseline", "generate_report"}]_vars
    /\ [](RunDone =>
            \A d \in Range(targets) :
                diff_files[d] = NoFile =>
                    /\ baseline_files[d] # NoFile
                    /\ d \notin Range(report))

\* the first target had no baseline, the second had one: both are done
C21_Witness ==
    /\ RunDone
    /\ diff_files[targets[1]] = NoFile
    /\ baseline_files[targets[1]] # NoFile
    /\ diff_files[targets[2]] # NoFile
    /\ report = <<targets[2]>>

(***************************************************************************)
(* notify_changes called under each configuration of the channels.         *)
(***************************************************************************)
Configs ==
    LET On(notify_on) == [enabled |-> TRUE, notify_on |-> notify_on]
        Off == [enabled |-> FALSE, notify_on |-> {"all"}]
    IN  [slack : {Off, On({"all"}), On({"new_subdomain"})},
         discord : {Off, On({"all"}), On({"subdomain_takeover"}),
                    On({"new_subdomain", "new_endpoint"}),
                    On({"changed_endpoint"}), On({})},
         telegram : {Off, On({"new_endpoint", "changed_endpoint"})},
         email : {[enabled |-> FALSE], [enabled |-> TRUE]}]

NotifiedChangeSets ==
    [new_subdomains : {<<>>, <<HostSeq[1]>>},
     removed_subdomains : {<<>>},
     new_endpoints : {<<>>, <<UrlSeq[1]>>},
     removed_endpoints : {<<>>},
     changed_endpoints :
        {<<>>} \cup
        {<<[url |-> UrlSeq[1], changes |-> m]>> :
            m \in {"status_code" :> [old |-> 403, new |-> 200],
                   "title" :> [old |-> "Forbidden", new |-> "Admin Panel"],
                   "new_flags" :> <<FlagStatus, FlagAdmin>>}},
     new_js_files : {<<>>, <<JsSeq[1]>>},
     changed_js_files : {<<>>},
     new_js_endpoints : {<<>>},
     new_takeovers : {<<>>, <<CandidateHigh(HostSeq[1])>>},
     resolved_takeovers : {<<>>, <<HostSeq[1]>>}]

InitNotify ==
    /\ config \in Configs
    /\ sent = <<>>
    /\ changes \in NotifiedChangeSets
    /\ old = EmptyBaseline
    /\ new = EmptyBaseline
    /\ priority = NoPriority
    /\ pc = "compared"
    /\ ClassifyUnused /\ ProbeUnused /\ TakeoverUnused
    /\ RunUnused /\ MultiUnused

NextNotify == NotifyChanges

SpecNotify == InitNotify /\ [][NextNotify]_vars

(***************************************************************************)
(* Properties of the notifications.                                        *)
(***************************************************************************)
SentTo(channel) == {i \in DOMAIN sent : sent[i].channel = channel}

\* C22: notify_changes sends nothing to any channel when new_subdomains,
\* removed_subdomains, new_endpoints, removed_endpoints, changed_endpoints,
\* new_js_endpoints, new_takeovers and resolved_takeovers are all empty,
\* whatever the channels' configuration.
C22_NothingSent ==
    Notified /\ changes.new_subdomains = <<>>
             /\ changes.removed_subdomains = <<>>
             /\ changes.new_endpoints = <<>>
             /\ changes.removed_endpoints = <<>>
             /\ changes.changed_endpoints = <<>>
             /\ changes.new_js_endpoints = <<>>
             /\ changes.new_takeovers = <<>>
             /\ changes.resolved_takeovers = <<>>
        => sent = <<>>

\* every channel is enabled, two of them for all, and only a list the early
\* return does not look at holds something
C22_Witness ==
    /\ Notified
    /\ NothingToNotify(changes)
    /\ changes.new_js_files # <<>>
    /\ Enabled(config, "slack") /\ "all" \in config.slack.notify_on
    /\ Enabled(config, "discord") /\ "all" \in config.discord.notify_on
    /\ Enabled(config, "telegram") /\ Enabled(config, "email")
    /\ sent = <<>>

\* C23: a change notification sent to Discord has the critical template
\* (CRITICAL in the title, colour 15158332) exactly when the priority of the
\* change set is CRITICAL; under HIGH and NORMAL its title is the
\* Monitoring Alert.
C23_DiscordTemplate ==
    Notified =>
        \A i \in SentTo("discord") :
            /\ Contains(sent[i].title, "CRITICAL") <=> escalate(changes) = "CRITICAL"
            /\ sent[i].color = 15158332 <=> escalate(changes) = "CRITICAL"
            /\ escalate(changes) \in {"HIGH", "NORMAL"} =>
                  sent[i].title = "Monitoring Alert"

\* one message went to Discord under HIGH, with the orange of a new item
C23_Witness ==
    /\ Notified
    /\ escalate(changes) = "HIGH"
    /\ \E i \in SentTo("discord") :
          sent[i].title = "Monitoring Alert" /\ sent[i].color = 15105570

\* C24: for a target with a baseline file the new baseline is collected to
\* its last stage, then compared with the baseline of the file, then the
\* change set is saved, and only then the file is overwritten: the file is
\* not overwritten before the comparison, a baseline short of a stage is
\* not compared, and after the pass the file holds the new baseline.
C24_CollectDiffSave ==
    /\ [][pc' = "compare_baselines" /\ pc # pc' => pc = "crawl_endpoints"]_vars
    /\ [][pc = "compare_baselines" /\ pc' # pc =>
            /\ old = baseline_files[domain]
            /\ changes' = compare_baselines(baseline_files[domain], new)
            /\ diff_files[domain] = NoFile]_vars
    /\ [][baseline_files' # baseline_files /\ ~FirstRun(old) =>
            /\ changes = compare_baselines(old, new)
            /\ diff_files[domain] = changes
            /\ baseline_files[domain] = old
            /\ baseline_files' =
                  [baseline_files EXCEPT ![domain] = _json_safe(new)]]_vars
    /\ [](TargetDone /\ ~FirstRun(old) =>
            /\ baseline_files[domain] = _json_safe(new)
            /\ diff_files[domain] = compare_baselines(old, new))

\* a target is done whose new baseline differs from the one of its file
C24_Witness ==
    /\ TargetDone
    /\ ~FirstRun(old)
    /\ new # old
    /\ baseline_files[domain] = _json_safe(new)
    /\ diff_files[domain] = changes
    /\ changes.removed_endpoints # <<>>

(***************************************************************************)
(* Properties of the endpoint lists of compare_baselines.                  *)
(***************************************************************************)

\* the field-level deltas two records of one URL give rise to
DeltasOf(old_data, new_data) ==
    {k \in {"status_code"} : old_data.status_code # new_data.status_code}
    \cup {k \in {"title"} : old_data.title # new_data.title}
    \cup {k \in {"body_length"} :
            /\ old_data.body_length > 0
            /\ 10 * Abs(new_data.body_length - old_data.body_length)
                  > old_data.body_length}
    \cup {k \in {"technologies"} :
            old_data.technologies # new_data.technologies}
    \cup {k \in {"new_flags"} :
            \E i \in DOMAIN new_data.flags :
                /\ "severity" \in DOMAIN new_data.flags[i]
                /\ new_data.flags[i].severity = "high"}

\* C25: a URL of both baselines has an entry in changed_endpoints exactly
\* when at least one field-level delta (status_code, title, body_length,
\* technologies, new_flags) was computed for it; its changes map holds
\* these deltas, and no entry has an empty changes map.
C25_EntryIffDelta ==
    Compared =>
        /\ \A u \in CommonUrls :
              LET deltas == DeltasOf(old.endpoints[u], new.endpoints[u])
              IN  /\ EntriesFor(u) # <<>> <=> deltas # {}
                  /\ \A i \in DOMAIN EntriesFor(u) :
                        DOMAIN EntriesFor(u)[i].changes = deltas
        /\ \A i \in DOMAIN changes.changed_endpoints :
              DOMAIN changes.changed_endpoints[i].changes # {}

\* one URL of both baselines has no delta and no entry, another has a
\* title delta alone and an entry
C25_Witness ==
    /\ Compared
    /\ \E u \in CommonUrls :
          /\ DeltasOf(old.endpoints[u], new.endpoints[u]) = {}
          /\ EntriesFor(u) = <<>>
    /\ \E u \in CommonUrls :
          /\ DeltasOf(old.endpoints[u], new.endpoints[u]) = {"title"}
          /\ Len(EntriesFor(u)) = 1

UrlsOf(entries) == {entries[i].url : i \in DOMAIN entries}

\* C29: the URLs of new_endpoints, removed_endpoints and changed_endpoints
\* are pairwise disjoint; new_endpoints is the URLs of new alone,
\* removed_endpoints the URLs of old alone, every URL of changed_endpoints
\* is in both baselines, and no URL has two entries in changed_endpoints.
C29_EndpointListsDisjoint ==
    Compared =>
        LET added == Range(changes.new_endpoints)
            removed == Range(changes.removed_endpoints)
            changed == UrlsOf(changes.changed_endpoints)
        IN  /\ added \cap removed = {}
            /\ added \cap changed = {}
            /\ removed \cap changed = {}
            /\ added = DOMAIN new.endpoints \ DOMAIN old.endpoints
            /\ removed = DOMAIN old.endpoints \ DOMAIN new.endpoints
            /\ changed \subseteq DOMAIN old.endpoints \cap DOMAIN new.endpoints
            /\ \A u \in changed : Len(EntriesFor(u)) = 1
            /\ NoDuplicates(changes.new_endpoints)
            /\ NoDuplicates(changes.removed_endpoints)

\* one URL is new and another is changed
C29_Witness ==
    /\ Compared
    /\ changes.new_endpoints # <<>>
    /\ changes.changed_endpoints # <<>>
    /\ DOMAIN old.endpoints # {}

\* C26: the change set of a target with a baseline is saved to the diff
\* directory whenever one of its lists holds something, whatever its
\* priority and whatever the notification channels: at the end of the
\* target's pass and at the end of the run the diff file holds it.
C26_ChangesSaved ==
    /\ TargetDone /\ ~FirstRun(old) /\ ~AllListsEmpty(changes) =>
          diff_files[domain] = changes
    /\ RunDone =>
          \A d \in DOMAIN all_changes :
              ~AllListsEmpty(all_changes[d]) => diff_files[d] = all_changes[d]

\* the run is over with the change sets of both targets saved, one of
\* priority NORMAL and one of priority HIGH
C26_Witness ==
    /\ RunDone
    /\ DOMAIN all_changes = Range(targets)
    /\ \A d \in Range(targets) :
          ~NothingToNotify(all_changes[d]) /\ diff_files[d] = all_changes[d]
    /\ escalate(all_changes[targets[1]]) = "NORMAL"
    /\ escalate(all_changes[targets[2]]) = "HIGH"

\* a target's pass has saved a change set of priority CRITICAL
C26_WitnessCritical ==
    /\ TargetDone /\ ~FirstRun(old)
    /\ escalate(changes) = "CRITICAL"
    /\ diff_files[domain] = changes

(***************************************************************************)
(* Properties of the probe results that reach a baseline.                  *)
(***************************************************************************)

\* the baseline at hand has its endpoints: results is what probe_multiple
\* returned for it
Probed == pc \in {"crawl_endpoints", "compare_baselines", "save_changes",
                  "save_baseline", "record_changes", "next_target"}

\* the probe of u raised an exception: probe_url has flagged the error
ProbeFailedFor(u) ==
    \E i \in DOMAIN results[u].flags : results[u].flags[i].type = "error"

HasErrorFlag(data) ==
    \E i \in DOMAIN data.flags : data.flags[i].type = "error"

\* C30: a probe result with reachable = false is not stored in the
\* endpoints of a baseline; an endpoint of the previous baseline whose
\* probe fails in this run is in removed_endpoints and not in
\* changed_endpoints; and no error flag is in a record the differ or the
\* escalator reads.
C30_FailedProbeIsRemoved ==
    /\ Probed =>
          /\ \A u \in DOMAIN results :
                ~results[u].reachable => u \notin DOMAIN new.endpoints
          /\ \A u \in DOMAIN new.endpoints : ~HasErrorFlag(new.endpoints[u])
    /\ TargetDone /\ ~FirstRun(old) =>
          /\ \A u \in DOMAIN results \cap DOMAIN old.endpoints :
                ProbeFailedFor(u) =>
                    /\ u \in Range(changes.removed_endpoints)
                    /\ u \notin UrlsOf(changes.changed_endpoints)
          /\ \A i \in DOMAIN changes.changed_endpoints :
                ~HasErrorFlag(changes.changed_endpoints[i].new)

\* what holds of an unreachable result: it is not stored, and an endpoint
\* of the previous baseline with such a result is removed, not changed
UnreachableIsRemoved ==
    /\ Probed =>
          \A u \in DOMAIN results :
              ~results[u].reachable => u \notin DOMAIN new.endpoints
    /\ TargetDone /\ ~FirstRun(old) =>
          \A u \in DOMAIN results \cap DOMAIN old.endpoints :
              ~results[u].reachable =>
                  /\ u \in Range(changes.removed_endpoints)
                  /\ u \notin UrlsOf(changes.changed_endpoints)
(***************************************************************************)
(* HTTPMonitor.probe_multiple with parallel = True: the main thread        *)
(* submits one probe_url call per URL to a pool of max_workers threads,    *)
(* takes the futures as they complete and stores each one's result under   *)
(* its URL.  futures is the list of the calls, in the order of urls;       *)
(* results is the dict the function returns.                               *)
(***************************************************************************)

\* ThreadPoolExecutor(max_workers=20)
max_workers == 20

\* the longest list of URLs handed to probe_multiple
MaxUrls == 3

NoOutcome == <<>>

\* urls[i], its probe_url call not yet submitted
NewFuture(u) ==
    [url |-> u, state |-> "UNSUBMITTED", outcome |-> NoOutcome,
     result |-> NoOutcome, exception |-> "", yielded |-> FALSE]

\* Mutant: the URL of a future is looked up after the loop variable has
\* moved on, so every future carries the last URL.
future_to_url_last(fs, i) == fs[Len(fs)].url

\* future_to_url[future]
future_to_url(fs, i) == fs[i].url

\* executor.submit(self.probe_url, url)
submit(f) == [f EXCEPT !.state = "PENDING"]

MultiUrls == {"https://admin.example.com", "https://www.example.com"}

\* how a probe_url call ends: with a page, with a page the parser rejects,
\* with a timeout of the request
MultiOutcomes == {PageOk, PageRejected, Raised("Timeout", "")}

\* probe_url on the URLs and outcomes above, computed once
ProbeUrlTable ==
    [u \in MultiUrls |-> [outcome \in MultiOutcomes |-> probe_url(u, outcome)]]

\* the call returns: the future holds probe_url's result
set_result(f, outcome) ==
    [f EXCEPT !.state = "FINISHED", !.outcome = outcome,
              !.result = ProbeUrlTable[f.url][outcome]]

\* the call raises: the future holds the exception
set_exception(f, message) ==
    [f EXCEPT !.state = "FINISHED", !.exception = message]

Raises(f) == f.exception # ""

\* try: result = future.result() ... except Exception as e: {'error': str(e)}
future_entry(f) ==
    IF Raises(f) THEN [error |-> f.exception] ELSE f.result

\* results[url] = ...
StoreResult(res, u, entry) ==
    [k \in DOMAIN res \cup {u} |-> IF k = u THEN entry ELSE res[k]]

Running(fs) == {i \in DOMAIN fs : fs[i].state = "RUNNING"}
Unsubmitted(fs) == {i \in DOMAIN fs : fs[i].state = "UNSUBMITTED"}

UrlLists == UNION {[1..n -> MultiUrls] : n \in 0..MaxUrls}

\* what a worker can raise outside probe_url's try block
WorkerErrors == {"out of memory"}

InitMultiple ==
    /\ \E urls \in UrlLists :
          futures = [i \in DOMAIN urls |-> NewFuture(urls[i])]
    /\ results = EmptyDict
    /\ pc = "submit"
    /\ MonitorUnused /\ ClassifyUnused /\ ProbeUnused /\ TakeoverUnused
    /\ RunUnused /\ NotifyUnused

multiOthers ==
    <<monitorVars, classifyVars, probeVars, takeoverVars, runVars, notifyVars>>

\* future_to_url = {executor.submit(self.probe_url, url): url for url in urls}
Submit ==
    /\ pc = "submit"
    /\ Unsubmitted(futures) # {}
    /\ LET i == CHOOSE j \in Unsubmitted(futures) :
                    \A k \in Unsubmitted(futures) : j <= k
       IN  futures' = [futures EXCEPT ![i] = submit(futures[i])]
    /\ UNCHANGED <<results, pc, multiOthers>>

\* for future in concurrent.futures.as_completed(future_to_url):
AsCompleted ==
    /\ pc = "submit"
    /\ Unsubmitted(futures) = {}
    /\ pc' = "as_completed"
    /\ UNCHANGED <<futures, results, multiOthers>>

\* a free worker thread takes a submitted call
WorkerStarts ==
    \E i \in DOMAIN futures :
        /\ futures[i].state = "PENDING"
        /\ Cardinality(Running(futures)) < max_workers
        /\ futures' = [futures EXCEPT ![i].state = "RUNNING"]
        /\ UNCHANGED <<results, pc, multiOthers>>

\* the worker's probe_url call returns
WorkerReturns ==
    \E i \in DOMAIN futures, outcome \in MultiOutcomes :
        /\ futures[i].state = "RUNNING"
        /\ futures' = [futures EXCEPT ![i] = set_result(futures[i], outcome)]
        /\ UNCHANGED <<results, pc, multiOthers>>

\* the worker's call raises
WorkerRaises ==
    \E i \in DOMAIN futures, e \in WorkerErrors :
        /\ futures[i].state = "RUNNING"
        /\ futures' = [futures EXCEPT ![i] = set_exception(futures[i], e)]
        /\ UNCHANGED <<results, pc, multiOthers>>

\* as_completed yields a finished future and the loop body stores its entry
StoreCompleted ==
    \E i \in DOMAIN futures :
        /\ pc = "as_completed"
        /\ futures[i].state = "FINISHED" /\ ~futures[i].yielded
        /\ results' = StoreResult(results, future_to_url(futures, i),
                                  future_entry(futures[i]))
        /\ futures' = [futures EXCEPT ![i].yielded = TRUE]
        /\ UNCHANGED <<pc, multiOthers>>

\* as_completed is exhausted: return results
ReturnResults ==
    /\ pc = "as_completed"
    /\ \A i \in DOMAIN futures : futures[i].yielded
    /\ pc' = "returned"
    /\ UNCHANGED <<futures, results, multiOthers>>

NextMultiple ==
    \/ Submit
    \/ AsCompleted
    \/ WorkerStarts
    \/ WorkerReturns
    \/ WorkerRaises
    \/ StoreCompleted
    \/ ReturnResults

SpecMultiple == InitMultiple /\ [][NextMultiple]_vars

InputUrls == {futures[i].url : i \in DOMAIN futures}

\* the entries of the calls made for u
OwnEntries(u) ==
    {future_entry(futures[i]) :
        i \in {j \in DOMAIN futures :
                  futures[j].url = u /\ futures[j].state = "FINISHED"}}

\* what the call for futures[i] has to leave in results
EntryFor(f) ==
    IF Raises(f) THEN [error |-> f.exception]
    ELSE probe_url(f.url, f.outcome)

ErrorEntry(e) ==
    \/ "error" \in DOMAIN e
    \/ ~e.reachable
    \/ HasErrorFlag(e)

FailedCall(f) ==
    /\ f.state = "FINISHED"
    /\ \/ Raises(f)
       \/ f.outcome \in {PageRejected, Raised("Timeout", "")}

\* the steps probe_multiple still has to take: those of each call up to
\* its entry being stored, and those of the main thread up to its return
Remaining ==
    4 * Cardinality(Unsubmitted(futures))
    + 3 * Cardinality({i \in DOMAIN futures : futures[i].state = "PENDING"})
    + 2 * Cardinality(Running(futures))
    + Cardinality({i \in DOMAIN futures :
                     futures[i].state = "FINISHED" /\ ~futures[i].yielded})
    + (CASE pc = "submit" -> 2 [] pc = "as_completed" -> 1 [] OTHER -> 0)

\* C27: whatever the order in which the workers run and finish, the map
\* probe_multiple returns has exactly the input URLs as keys, each mapped
\* to the entry of a probe of that URL; where each URL is given once the
\* map is the one the probes computed one by one give, and a call that
\* failed, timed out or raised has left an error or unreachable entry
\* under its URL.  No step removes a stored entry or stores one under a
\* URL that was not that of the call.  Until the return some step can be
\* taken, a finished call's entry can be stored whatever the state of the
\* other calls, and every step brings the return nearer.
C27_ProbeMultiple ==
    /\ [](pc = "returned" =>
             /\ DOMAIN results = InputUrls
             /\ \A i \in DOMAIN futures :
                   /\ results[futures[i].url] \in OwnEntries(futures[i].url)
                   /\ (FailedCall(futures[i])
                          /\ Cardinality(InputUrls) = Len(futures))
                       => ErrorEntry(results[futures[i].url])
             /\ Cardinality(InputUrls) = Len(futures) =>
                   \A i \in DOMAIN futures :
                       results[futures[i].url] = EntryFor(futures[i]))
    /\ [](\A u \in DOMAIN results :
             u \in InputUrls /\ results[u] \in OwnEntries(u))
    /\ [][/\ DOMAIN results \subseteq DOMAIN results'
          /\ Remaining' < Remaining]_vars
    /\ [](pc # "returned" => ENABLED NextMultiple)
    /\ []((/\ pc = "as_completed"
           /\ \E i \in DOMAIN futures :
                 futures[i].state = "FINISHED" /\ ~futures[i].yielded)
          => ENABLED StoreCompleted)

\* the map is returned for three calls: the one for the first URL timed
\* out, the one for the second raised and the third got its page
C27_Witness ==
    /\ pc = "returned"
    /\ Len(futures) = 3
    /\ futures[1].url # futures[2].url
    /\ futures[1].outcome = Raised("Timeout", "")
    /\ Raises(futures[2])
    /\ futures[3].outcome = PageOk
    /\ DOMAIN results = MultiUrls
(***************************************************************************)
(* HTTPMonitor.compare_results: the change record of two probe results of  *)
(* one URL.  The record starts with has_changes False and an empty list;   *)
(* each test of the function that finds a difference sets has_changes and  *)
(* appends one entry.  Left out are the timestamp, the message of an       *)
(* entry, a text made of the values the entry carries, and diff_percent,   *)
(* the rounded percentage that text shows.                                 *)
(***************************************************************************)

\* changes = {'url': new['url'], ..., 'has_changes': False, 'changes': []}
NoResultChanges(new_result) ==
    [url |-> new_result.url, has_changes |-> FALSE, changes |-> <<>>]

\* changes['has_changes'] = True; changes['changes'].append(entry)
Reported(c, entry) ==
    [c EXCEPT !.has_changes = TRUE, !.changes = Append(@, entry)]

\* Status code change
StatusCodeChange(c, old_result, new_result) ==
    IF old_result.status_code # new_result.status_code
    THEN Reported(c, [type |-> "status_code",
                      old |-> old_result.status_code,
                      new |-> new_result.status_code,
                      severity |-> IF new_result.status_code \in {200, 401, 500}
                                   THEN "high" ELSE "medium"])
    ELSE c

\* Title change
TitleChange(c, old_result, new_result) ==
    IF old_result.title # new_result.title
    THEN Reported(c, [type |-> "title",
                      old |-> old_result.title,
                      new |-> new_result.title,
                      severity |-> "medium"])
    ELSE c

\* abs(new_length - old_length) / old_length * 100 > percent
LengthDiffPercentOver(old_length, new_length, percent) ==
    100 * Abs(new_length - old_length) > percent * old_length

\* Body length change (significant = >10%)
BodyLengthChange(c, old_result, new_result) ==
    LET old_length == old_result.body_length
        new_length == new_result.body_length
    IN  IF old_length > 0 /\ LengthDiffPercentOver(old_length, new_length, 10)
        THEN Reported(c, [type |-> "body_length",
                          old |-> old_length,
                          new |-> new_length,
                          severity |->
                              IF LengthDiffPercentOver(old_length,
                                                       new_length, 50)
                              THEN "medium" ELSE "low"])
        ELSE c

\* Mutant: the content entry is appended and has_changes is left as it was.
ContentHashChange_unflagged(c, old_result, new_result) ==
    IF /\ old_result.content_hash # new_result.content_hash
       /\ ~\E i \in DOMAIN c.changes : c.changes[i].type = "body_length"
    THEN [c EXCEPT !.changes = Append(@, [type |-> "content",
                                          severity |-> "low"])]
    ELSE c

\* Content hash change
ContentHashChange(c, old_result, new_result) ==
    IF /\ old_result.content_hash # new_result.content_hash
       /\ ~\E i \in DOMAIN c.changes : c.changes[i].type = "body_length"
    THEN Reported(c, [type |-> "content", severity |-> "low"])
    ELSE c

added_tech(old_result, new_result) ==
    Range(new_result.technologies) \ Range(old_result.technologies)

removed_tech(old_result, new_result) ==
    Range(old_result.technologies) \ Range(new_result.technologies)

\* Technology changes
TechnologyChanges(c, old_result, new_result) ==
    LET added   == added_tech(old_result, new_result)
        removed == removed_tech(old_result, new_result)
        c1 == IF added # {}
              THEN Reported(c, [type |-> "technology_added",
                                technologies |-> added,
                                severity |-> "medium"])
              ELSE c
    IN  IF removed # {}
        THEN Reported(c1, [type |-> "technology_removed",
                           technologies |-> removed,
                           severity |-> "low"])
        ELSE c1

\* [f for f in new.get('flags', []) if f.get('message') not in old_flags]
added_flags(old_result, new_result) ==
    LET old_flags == {old_result.flags[i].message :
                         i \in DOMAIN old_result.flags}
        NotInOld(f) == f.message \notin old_flags
    IN  SelectSeq(new_result.flags, NotInOld)

\* New flags
NewFlags(c, old_result, new_result) ==
    LET added == added_flags(old_result, new_result)
    IN  IF added # <<>>
        THEN Reported(c, [type |-> "new_flags",
                          flags |-> added,
                          severity |->
                              IF \E i \in DOMAIN added :
                                     /\ "severity" \in DOMAIN added[i]
                                     /\ added[i].severity = "high"
                              THEN "high" ELSE "medium"])
        ELSE c

\* Reachability change
ReachabilityChange(c, old_result, new_result) ==
    IF old_result.reachable # new_result.reachable
    THEN Reported(c, [type |-> "reachability",
                      old |-> old_result.reachable,
                      new |-> new_result.reachable,
                      severity |-> "high"])
    ELSE c

compare_results(old_result, new_result) ==
    LET c0 == NoResultChanges(new_result)
        c1 == StatusCodeChange(c0, old_result, new_result)
        c2 == TitleChange(c1, old_result, new_result)
        c3 == BodyLengthChange(c2, old_result, new_result)
        c4 == ContentHashChange(c3, old_result, new_result)
        c5 == TechnologyChanges(c4, old_result, new_result)
        c6 == NewFlags(c5, old_result, new_result)
    IN  ReachabilityChange(c6, old_result, new_result)

\* the responses a URL gives from one run to the next
ComparePages ==
    LET Headers(names) ==
            [h \in names |->
                CASE h = "Content-Type" -> "text/html"
                  [] h = "Server" -> "nginx/1.18.0"
                  [] h = "X-Powered-By" -> "PHP/7.4.3"
                  [] OTHER -> "Sun, 01 Nov 2026 10:00:00 GMT"]
        Page(status_code, names, content) ==
            [status_code |-> status_code, headers |-> Headers(names),
             content |-> content, history |-> <<>>]
    IN  {Page(200, {"Content-Type"}, "<title>Admin Panel</title>one"),
         Page(200, {"Content-Type", "Date"}, "<title>Admin Panel</title>one"),
         Page(200, {"Content-Type"}, "<title>Admin Panel</title>two"),
         Page(200, {"Content-Type"}, "<title>Admin Panel</title>three"),
         Page(200, {"Content-Type", "Server"},
              "<title>Welcome</title>" \o "<p>It works, and a longer body</p>"),
         Page(403, {"Content-Type", "X-Powered-By"}, "<title>Forbidden</title>"),
         Page(200, {"Content-Type"}, "<![x[ y ]]><title>Admin Panel</title>")}

CompareUrls == {"https://admin.example.com", "https://www.example.com"}

\* the probe results of those responses and of a request that timed out
CompareInputs ==
    {probe_url(u, outcome) :
        u \in CompareUrls, outcome \in ComparePages \cup {Raised("Timeout", "")}}

InitCompareResults ==
    /\ old \in CompareInputs
    /\ new \in {r \in CompareInputs : r.url = old.url}
    /\ changes = EmptyChanges
    /\ priority = NoPriority
    /\ pc = "start"
    /\ ClassifyUnused /\ ProbeUnused /\ TakeoverUnused
    /\ RunUnused /\ NotifyUnused /\ MultiUnused

\* changes = monitor.compare_results(old_results[url], results[url])
CompareResults ==
    /\ pc = "start"
    /\ changes' = compare_results(old, new)
    /\ pc' = "returned"
    /\ UNCHANGED <<old, new, priority, classifyVars, probeVars, takeoverVars,
                   runVars, notifyVars, multiVars>>

NextCompareResults == CompareResults

SpecCompareResults == InitCompareResults /\ [][NextCompareResults]_vars

\* the two results agree in the seven fields compare_results reads
EqualResults(old_result, new_result) ==
    /\ old_result.status_code = new_result.status_code
    /\ old_result.title = new_result.title
    /\ old_result.body_length = new_result.body_length
    /\ old_result.content_hash = new_result.content_hash
    /\ Range(old_result.technologies) = Range(new_result.technologies)
    /\ old_result.flags = new_result.flags
    /\ old_result.reachable = new_result.reachable

\* C28: compare_results of two probe results that are equal in status
\* code, title, body length, content hash, technologies, flags and
\* reachability has has_changes false and an empty change list; and for
\* every pair of results has_changes is true exactly when the change list
\* is not empty.
C28_NoChangesIffEmpty ==
    pc = "returned" =>
        /\ EqualResults(old, new) =>
              ~changes.has_changes /\ changes.changes = <<>>
        /\ changes.has_changes <=> changes.changes # <<>>

\* two results that differ, in their headers only, have been compared
C28_Witness ==
    /\ pc = "returned"
    /\ EqualResults(old, new)
    /\ old # new
    /\ old.reachable
    /\ ~changes.has_changes

\* a comparison has reported more than one change
C28_WitnessChanged ==
    /\ pc = "returned"
    /\ changes.has_changes
    /\ Len(changes.changes) > 1

\* a comparison has found the content changed and nothing else
C28_WitnessContentOnly ==
    /\ pc = "returned"
    /\ Len(changes.changes) = 1
    /\ changes.changes[1].type = "content"

====
